---- MODULE Spec2Model ----
(***************************************************************************)
(* The generation pipeline of the QAtalyst edge functions: payload         *)
(* validation and sanitization, the credential check, the single gateway   *)
(* call, the mapping of upstream failures to responses and the marker      *)
(* based extraction of the generated sections.                             *)
(*                                                                         *)
(* JavaScript values are tagged records, strings are TLA+ strings, and a   *)
(* JavaScript exception is the result record with thrown = TRUE.           *)
(***************************************************************************)
EXTENDS Integers, Sequences, FiniteSets, TLC

VARIABLES
    env,       \* the environment variables that are set (read-only configuration)
    req,       \* per slot: the request (handler, method, name of the body)
    pc,        \* per slot: idle, received, calling, settled, responded
    trace,     \* per slot: the steps the handler has taken
    calls,     \* per slot: the gateway calls issued
    upstream,  \* per slot: the reply of the upstream
    prompt,    \* per slot: the data embedded in the prompt
    resp,      \* per slot: the response
    source,    \* the pieces of a completion handed to the section extractors
    section,   \* what an extractor returned for it
    given,     \* the name of a body handed to the sanitizer
    cleaned,   \* what sanitizePayload returned for it
    again,     \* what sanitizePayload returned for its own output
    checked,   \* what validateAutomationPayload returned for the body
    rechecked  \* what it returned when called on the body once more

handlerVars == <<env, req, pc, trace, calls, upstream, prompt, resp>>

extractVars == <<source, section>>

sanitizeVars == <<given, cleaned, again>>

validateVars == <<checked, rechecked>>

vars == <<handlerVars, extractVars, sanitizeVars, validateVars>>

(***************************************************************************)
(* JavaScript values (what JSON.parse can produce, plus undefined).        *)
(***************************************************************************)
Undefined == [t |-> "undefined"]

Null == [t |-> "null"]

Num(n) == [t |-> "number", v |-> n]

Str(s) == [t |-> "string", v |-> s]

Arr(s) == [t |-> "array", v |-> s]

Obj(f) == [t |-> "object", v |-> f]

Bool(b) == [t |-> "boolean", v |-> b]

EmptyObj == Obj([k \in {} |-> Null])

\* ToBoolean: undefined, null, 0 and "" are falsy; arrays and objects are truthy.
Truthy(x) ==
    CASE x.t = "undefined" -> FALSE
      [] x.t = "null" -> FALSE
      [] x.t = "number" -> x.v # 0
      [] x.t = "string" -> x.v # ""
      [] x.t = "boolean" -> x.v
      [] OTHER -> TRUE

\* typeof x
TypeOf(x) ==
    CASE x.t = "undefined" -> "undefined"
      [] x.t = "number" -> "number"
      [] x.t = "string" -> "string"
      [] x.t = "boolean" -> "boolean"
      [] OTHER -> "object"

\* x.k throws a TypeError when x is null or undefined.
Nullish(x) == x.t \in {"undefined", "null"}

\* x.k for a non-nullish x and a key k that no prototype defines.
Get(x, k) ==
    IF x.t = "object" /\ k \in DOMAIN x.v THEN x.v[k] ELSE Undefined

\* x?.k
OptGet(x, k) == IF Nullish(x) THEN Undefined ELSE Get(x, k)

\* A variant of OrElse that replaces only null and undefined.
OrElseNullish(a, b) == IF a.t \in {"undefined", "null"} THEN b ELSE a

\* a || b
OrElse(a, b) == IF Truthy(a) THEN a ELSE b

MinOf(a, b) == IF a < b THEN a ELSE b

\* s.slice(0, n) of a string
StrSlice(s, n) == SubSeq(s, 1, MinOf(n, Len(s)))

\* A variant of ArrSlice that keeps the last n entries.
ArrSliceLast(a, n) == SubSeq(a, Len(a) - MinOf(n, Len(a)) + 1, Len(a))

\* a.slice(0, n) of an array
ArrSlice(a, n) == SubSeq(a, 1, MinOf(n, Len(a)))

\* A string of n copies of the character c.
RECURSIVE Rep(_, _)
Rep(c, n) ==
    IF n = 0 THEN ""
    ELSE IF n % 2 = 0 THEN LET half == Rep(c, n \div 2) IN half \o half
    ELSE c \o Rep(c, n - 1)

\* Whether s contains sub.
Contains(s, sub) ==
    \E i \in 1..(Len(s) - Len(sub) + 1) : SubSeq(s, i, i + Len(sub) - 1) = sub

(***************************************************************************)
(* String(x): a string is itself, a number its decimal form, an array the  *)
(* join of its elements with "," (null and undefined elements give ""), an *)
(* object "[object Object]".  An object parsed from JSON that has its own  *)
(* "toString" key has no callable toString, and valueOf returns the object *)
(* itself, so the conversion throws a TypeError.                           *)
(***************************************************************************)
RECURSIVE JsString(_)
RECURSIVE JoinFrom(_, _)
JsString(x) ==
    CASE x.t = "undefined" -> [thrown |-> FALSE, value |-> "undefined"]
      [] x.t = "null" -> [thrown |-> FALSE, value |-> "null"]
      [] x.t = "number" -> [thrown |-> FALSE, value |-> ToString(x.v)]
      [] x.t = "string" -> [thrown |-> FALSE, value |-> x.v]
      [] x.t = "boolean" ->
           [thrown |-> FALSE, value |-> IF x.v THEN "true" ELSE "false"]
      [] x.t = "array" -> JoinFrom(x.v, 1)
      [] OTHER ->
           IF "toString" \in DOMAIN x.v
           THEN [thrown |-> TRUE, value |-> "TypeError"]
           ELSE [thrown |-> FALSE, value |-> "[object Object]"]

JoinFrom(a, i) ==
    IF i > Len(a) THEN [thrown |-> FALSE, value |-> ""]
    ELSE LET head == IF Nullish(a[i]) THEN [thrown |-> FALSE, value |-> ""]
                     ELSE JsString(a[i])
             rest == JoinFrom(a, i + 1)
         IN  IF head.thrown THEN head
             ELSE IF rest.thrown THEN rest
             ELSE [thrown |-> FALSE,
                   value |-> IF i < Len(a) THEN head.value \o "," \o rest.value
                             ELSE head.value]

(***************************************************************************)
(* Payload limits and the validator.                                       *)
(***************************************************************************)
MAX_TEST_CASES == 50

MAX_STRING_LENGTH == 1000

MAX_ID_LENGTH == 100

NoTestCasesMsg == "No test cases provided. Please upload a valid CSV first."

TooManyMsg == "Too many test cases. Maximum is " \o ToString(MAX_TEST_CASES) \o "."

StepTooLongMsg ==
    "Test case step too long (max " \o ToString(MAX_STRING_LENGTH) \o " chars)."

ExpectedTooLongMsg ==
    "Test case expected result too long (max " \o ToString(MAX_STRING_LENGTH) \o " chars)."

Returned(v) == [thrown |-> FALSE, value |-> v]

Thrown(e) == [thrown |-> TRUE, value |-> e]

\* A variant of FieldTooLong that finds a string too long only at twice the
\* limit.
FieldTooLongAtTwice(tc, f) ==
    /\ Truthy(Get(tc, f))
    /\ TypeOf(Get(tc, f)) = "string"
    /\ Len(Get(tc, f).v) > 2 * MAX_STRING_LENGTH

\* tc.f && typeof tc.f === "string" && tc.f.length > MAX_STRING_LENGTH
FieldTooLong(tc, f) ==
    /\ Truthy(Get(tc, f))
    /\ TypeOf(Get(tc, f)) = "string"
    /\ Len(Get(tc, f).v) > MAX_STRING_LENGTH

\* A variant of the loop that looks at expected before steps.
RECURSIVE ValidateExpectedFirst(_, _)
ValidateExpectedFirst(tcs, i) ==
    IF i > Len(tcs) THEN Returned(Null)
    ELSE IF Nullish(tcs[i]) THEN Thrown("TypeError")
    ELSE IF FieldTooLong(tcs[i], "expected") THEN Returned(Str(ExpectedTooLongMsg))
    ELSE IF FieldTooLong(tcs[i], "steps") THEN Returned(Str(StepTooLongMsg))
    ELSE ValidateExpectedFirst(tcs, i + 1)

\* The loop over body.testCases from entry i on; reading a field of a null
\* entry throws.
RECURSIVE ValidateFrom(_, _)
ValidateFrom(tcs, i) ==
    IF i > Len(tcs) THEN Returned(Null)
    ELSE IF Nullish(tcs[i]) THEN Thrown("TypeError")
    ELSE IF FieldTooLong(tcs[i], "steps") THEN Returned(Str(StepTooLongMsg))
    ELSE IF FieldTooLong(tcs[i], "expected") THEN Returned(Str(ExpectedTooLongMsg))
    ELSE ValidateFrom(tcs, i + 1)

\* A variant of the first check that lets an empty array through.
NoTestCasesLetsEmptyThrough(body) ==
    \/ ~Truthy(OptGet(body, "testCases"))
    \/ Get(body, "testCases").t # "array"

NoTestCases(body) ==
    \/ ~Truthy(OptGet(body, "testCases"))
    \/ Get(body, "testCases").t # "array"
    \/ Len(Get(body, "testCases").v) = 0

\* A variant of the validator that walks the entries before it counts them.
validateEntriesFirst(body) ==
    IF NoTestCases(body) THEN Returned(Str(NoTestCasesMsg))
    ELSE LET walked == ValidateFrom(Get(body, "testCases").v, 1)
         IN  IF walked.thrown \/ Truthy(walked.value) THEN walked
             ELSE IF Len(Get(body, "testCases").v) > MAX_TEST_CASES
             THEN Returned(Str(TooManyMsg))
             ELSE walked

validateAutomationPayload(body) ==
    IF NoTestCases(body) THEN Returned(Str(NoTestCasesMsg))
    ELSE IF Len(Get(body, "testCases").v) > MAX_TEST_CASES
    THEN Returned(Str(TooManyMsg))
    ELSE ValidateFrom(Get(body, "testCases").v, 1)

(***************************************************************************)
(* The sanitizer.                                                          *)
(***************************************************************************)
\* A variant of SanitizeField that slices from the second character.
SanitizeFieldFromOne(tc, f, n) ==
    LET str == JsString(OrElse(Get(tc, f), Str("")))
    IN  IF str.thrown THEN str
        ELSE Returned(SubSeq(str.value, 2, MinOf(n, Len(str.value))))

\* String(tc.f || "").slice(0, n)
SanitizeField(tc, f, n) ==
    LET str == JsString(OrElse(Get(tc, f), Str("")))
    IN  IF str.thrown THEN str ELSE Returned(StrSlice(str.value, n))

\* The callback of map: one sanitized test case, or the exception thrown
\* while building it (reading a field of a null entry, or String()).
SanitizeCase(tc) ==
    IF Nullish(tc) THEN Thrown("TypeError")
    ELSE LET id == SanitizeField(tc, "id", MAX_ID_LENGTH)
             description == SanitizeField(tc, "description", MAX_STRING_LENGTH)
             steps == SanitizeField(tc, "steps", MAX_STRING_LENGTH)
             expected == SanitizeField(tc, "expected", MAX_STRING_LENGTH)
         IN  IF id.thrown \/ description.thrown \/ steps.thrown \/ expected.thrown
             THEN Thrown("TypeError")
             ELSE Returned([id |-> id.value, description |-> description.value,
                            steps |-> steps.value, expected |-> expected.value])

\* A variant of ObjectOrEmpty that lets only plain objects through.
PlainObjectOrEmpty(x) == IF x.t = "object" THEN x ELSE EmptyObj

\* x && typeof x === "object" ? x : {}
ObjectOrEmpty(x) == IF Truthy(x) /\ TypeOf(x) = "object" THEN x ELSE EmptyObj

\* (body.testCases || []): only an array has a slice whose result has a map.
sanitizePayload(body) ==
    IF Nullish(body) THEN Thrown("TypeError")
    ELSE LET raw == OrElse(Get(body, "testCases"), Arr(<<>>))
         IN  IF raw.t # "array" THEN Thrown("TypeError")
             ELSE LET cut == ArrSlice(raw.v, MAX_TEST_CASES)
                      mapped == [i \in 1..Len(cut) |-> SanitizeCase(cut[i])]
                  IN  IF \E i \in 1..Len(cut) : mapped[i].thrown
                      THEN Thrown("TypeError")
                      ELSE Returned([testCases |-> [i \in 1..Len(cut) |-> mapped[i].value],
                                     locators |-> ObjectOrEmpty(Get(body, "locators")),
                                     testData |-> ObjectOrEmpty(Get(body, "testData"))])

(***************************************************************************)
(* Text: trim, indexOf, substring and the two section extractors.          *)
(***************************************************************************)
WhiteSpace == {" ", "\n", "\t", "\r"}

CharAt(s, i) == SubSeq(s, i, i)

RECURSIVE TrimStart(_)
TrimStart(s) ==
    IF s # "" /\ CharAt(s, 1) \in WhiteSpace THEN TrimStart(SubSeq(s, 2, Len(s)))
    ELSE s

RECURSIVE TrimEnd(_)
TrimEnd(s) ==
    IF s # "" /\ CharAt(s, Len(s)) \in WhiteSpace THEN TrimEnd(SubSeq(s, 1, Len(s) - 1))
    ELSE s

\* s.trim()
Trim(s) == TrimEnd(TrimStart(s))

\* Whether m occurs in s at the 0-based index i.
OccursAt(s, m, i) == i >= 0 /\ i + Len(m) <= Len(s) /\ SubSeq(s, i + 1, i + Len(m)) = m

\* The 0-based indices, from index `from` on, at which m occurs in s.
Occurrences(s, m, from) == {i \in from..(Len(s) - Len(m)) : OccursAt(s, m, i)}

SetMin(S) == CHOOSE x \in S : \A y \in S : x <= y

\* s.indexOf(m): the first 0-based index of m in s, or -1.
IndexOf(s, m) ==
    IF Occurrences(s, m, 0) = {} THEN -1 ELSE SetMin(Occurrences(s, m, 0))

Clamp(i, n) == IF i < 0 THEN 0 ELSE IF i > n THEN n ELSE i

\* s.substring(a, b): both indices clamped to 0..length, and swapped when a > b.
Substring(s, a, b) ==
    LET ca == Clamp(a, Len(s))
        cb == Clamp(b, Len(s))
    IN  IF ca <= cb THEN SubSeq(s, ca + 1, cb) ELSE SubSeq(s, cb + 1, ca)

PAGE_OBJECT_START == "===PAGE_OBJECT_START==="

PAGE_OBJECT_END == "===PAGE_OBJECT_END==="

TEST_FILE_START == "===TEST_FILE_START==="

TEST_FILE_END == "===TEST_FILE_END==="

DATA_FILE_START == "===DATA_FILE_START==="

DATA_FILE_END == "===DATA_FILE_END==="

ROBOT_TEST_START == "===ROBOT_TEST_START==="

ROBOT_TEST_END == "===ROBOT_TEST_END==="

KEYWORDS_START == "===KEYWORDS_START==="

KEYWORDS_END == "===KEYWORDS_END==="

\* content.match(/START([\s\S]*?)END/): the leftmost index at which START
\* matches and END occurs somewhere after it; the lazy group stops at the
\* first such END.  The result is the capture group, or no match.
RegexMatch(text, startMarker, endMarker) ==
    LET starts == {i \in Occurrences(text, startMarker, 0) :
                      Occurrences(text, endMarker, i + Len(startMarker)) # {}}
    IN  IF starts = {} THEN [matched |-> FALSE, group |-> ""]
        ELSE LET i == SetMin(starts)
                 j == SetMin(Occurrences(text, endMarker, i + Len(startMarker)))
             IN  [matched |-> TRUE,
                  group |-> SubSeq(text, i + Len(startMarker) + 1, j)]

\* A variant of RegexSection that falls back to the whole text.
RegexSectionOrText(text, startMarker, endMarker) ==
    LET m == RegexMatch(text, startMarker, endMarker)
    IN  IF m.matched THEN Trim(m.group) ELSE Trim(text)

\* match?.[1]?.trim() || ''
RegexSection(text, startMarker, endMarker) ==
    LET m == RegexMatch(text, startMarker, endMarker)
    IN  IF m.matched THEN Trim(m.group) ELSE ""

\* The Robot handler's extractSection.
extractSection(text, startMarker, endMarker) ==
    LET startIdx == IndexOf(text, startMarker)
        endIdx == IndexOf(text, endMarker)
    IN  IF startIdx = -1 \/ endIdx = -1 THEN ""
        ELSE Trim(Substring(text, startIdx + Len(startMarker), endIdx))

(***************************************************************************)
(* The Gherkin handler's input checks and fence stripping.                 *)
(***************************************************************************)
MAX_URL_LENGTH == 500

MAX_DESC_LENGTH == 2000

MIN_DESC_LENGTH == 5

UrlRequiredMsg == "A valid URL is required."

UrlTooLongMsg ==
    "URL must be less than " \o ToString(MAX_URL_LENGTH) \o " characters."

DescRequiredMsg == "A scenario description of at least 5 characters is required."

DescTooLongMsg ==
    "Scenario description must be less than " \o ToString(MAX_DESC_LENGTH)
        \o " characters."

\* A variant of validateGherkinInput that checks the description before the url.
validateGherkinDescFirst(body) ==
    LET url == OptGet(body, "url")
        scenarioDesc == OptGet(body, "scenarioDesc")
    IN  IF \/ ~Truthy(scenarioDesc)
           \/ TypeOf(scenarioDesc) # "string"
           \/ Len(Trim(scenarioDesc.v)) < MIN_DESC_LENGTH
        THEN Str(DescRequiredMsg)
        ELSE IF Len(scenarioDesc.v) > MAX_DESC_LENGTH THEN Str(DescTooLongMsg)
        ELSE IF ~Truthy(url) \/ TypeOf(url) # "string" \/ Len(Trim(url.v)) = 0
        THEN Str(UrlRequiredMsg)
        ELSE IF Len(url.v) > MAX_URL_LENGTH THEN Str(UrlTooLongMsg)
        ELSE Null

\* The four checks of the Gherkin handler, in order: the message of the first
\* that fails, or null.
validateGherkinInput(body) ==
    LET url == OptGet(body, "url")
        scenarioDesc == OptGet(body, "scenarioDesc")
    IN  IF ~Truthy(url) \/ TypeOf(url) # "string" \/ Len(Trim(url.v)) = 0
        THEN Str(UrlRequiredMsg)
        ELSE IF Len(url.v) > MAX_URL_LENGTH THEN Str(UrlTooLongMsg)
        ELSE IF \/ ~Truthy(scenarioDesc)
                \/ TypeOf(scenarioDesc) # "string"
                \/ Len(Trim(scenarioDesc.v)) < MIN_DESC_LENGTH
        THEN Str(DescRequiredMsg)
        ELSE IF Len(scenarioDesc.v) > MAX_DESC_LENGTH THEN Str(DescTooLongMsg)
        ELSE Null

\* url.trim().slice(0, MAX_URL_LENGTH), scenarioDesc.trim().slice(0, MAX_DESC_LENGTH)
sanitizeGherkinInput(body) ==
    [url |-> StrSlice(Trim(Get(body, "url").v), MAX_URL_LENGTH),
     scenarioDesc |-> StrSlice(Trim(Get(body, "scenarioDesc").v), MAX_DESC_LENGTH)]

\* The backquote character, which a TLA+ string cannot hold, is written "@".
Backquote == "@"

Fence == Backquote \o Backquote \o Backquote

LowerChar(c) ==
    CASE c = "G" -> "g" [] c = "H" -> "h" [] c = "E" -> "e" [] c = "R" -> "r"
      [] c = "K" -> "k" [] c = "I" -> "i" [] c = "N" -> "n" [] OTHER -> c

RECURSIVE Lower(_)
Lower(s) == IF s = "" THEN "" ELSE LowerChar(CharAt(s, 1)) \o Lower(SubSeq(s, 2, Len(s)))

StartsWith(s, p) == Len(s) >= Len(p) /\ SubSeq(s, 1, Len(p)) = p

EndsWith(s, p) == Len(s) >= Len(p) /\ SubSeq(s, Len(s) - Len(p) + 1, Len(s)) = p

DropFirst(s, n) == SubSeq(s, n + 1, Len(s))

DropLast(s, n) == SubSeq(s, 1, Len(s) - n)

\* The first replace: an opening fence, an optional "gherkin" tag in any
\* letter case and an optional line break, at the start of the string.
StripOpeningFence(s) ==
    IF ~StartsWith(s, Fence) THEN s
    ELSE LET a == DropFirst(s, Len(Fence))
             b == IF StartsWith(Lower(SubSeq(a, 1, MinOf(7, Len(a)))), "gherkin")
                  THEN DropFirst(a, 7) ELSE a
         IN  IF StartsWith(b, "\n") THEN DropFirst(b, 1) ELSE b

\* The second replace: an optional line break and a closing fence at the
\* end of the string.
StripClosingFence(s) ==
    IF ~EndsWith(s, Fence) THEN s
    ELSE LET a == DropLast(s, Len(Fence))
         IN  IF EndsWith(a, "\n") THEN DropLast(a, 1) ELSE a

stripFences(s) == Trim(StripClosingFence(StripOpeningFence(s)))

(***************************************************************************)
(* The handlers.  "selenium" is the validated Selenium revision,           *)
(* "playwright" the two-file Playwright handler, "robotEarly" the earlier  *)
(* Robot Framework revision that calls the Gemini API directly.            *)
(***************************************************************************)
ValidatedHandlers == {"cypress", "selenium", "robot"}

HardenedHandlers == ValidatedHandlers \cup {"gherkin"}

Handlers == HardenedHandlers \cup {"playwright", "robotEarly"}

\* The environment variable a handler reads its credential from.
KeyName(h) == IF h = "robotEarly" THEN "GEMINI_API_KEY" ELSE "LOVABLE_API_KEY"

corsHeaders ==
    { <<"Access-Control-Allow-Origin", "*">>,
      <<"Access-Control-Allow-Headers",
        "authorization, x-client-info, apikey, content-type">> }

NoResp == [status |-> 0, headers |-> {}, json |-> FALSE, body |-> [text |-> ""]]

NoPrompt == [kind |-> "none"]

\* new Response(JSON.stringify(body), {status, headers: {...corsHeaders, "Content-Type": ...}})
JsonResponse(status, body) ==
    [status |-> status, headers |-> corsHeaders \cup {<<"Content-Type", "application/json">>},
     json |-> TRUE, body |-> body]

\* new Response(text, {headers: corsHeaders}): the status defaults to 200.
PlainResponse(text) ==
    [status |-> 200, headers |-> corsHeaders, json |-> FALSE, body |-> [text |-> text]]

preflightResponse(h) == IF h = "robotEarly" THEN PlainResponse("ok") ELSE PlainResponse("")

ConfigErrorMsg == "Service configuration error. Please try again later."

GenerationLimitMsg == "AI Generation limit reached. Please try again later."

RateLimitMsg == "Rate limit exceeded. Please try again later."

PaymentRequiredMsg == "Payment required. Please add credits to your workspace."

GenericCodeMsg == "Failed to generate code. Please try again."

GenericGherkinMsg == "Failed to generate Gherkin. Please try again."

GenericMsg(h) == IF h = "gherkin" THEN GenericGherkinMsg ELSE GenericCodeMsg

\* A variant of catchMessage that relays the message of the exception.
catchMessageRelayed(h, message) ==
    IF message # "" THEN message ELSE GenericMsg(h)

\* The error string of the catch block, given the message of the exception.
catchMessage(h, message) ==
    CASE h \in HardenedHandlers -> GenericMsg(h)
      [] h = "playwright" -> message
      [] OTHER -> IF message # "" THEN message
                  ELSE "Failed to generate Robot Framework code"

\* A handler run up to its next await or its response: the steps taken,
\* whether the gateway call was issued, the data embedded in the prompt and
\* the response (NoResp while the call is in flight).
Exit(steps, response) ==
    [steps |-> Append(steps, "respond"), fetch |-> FALSE, prompt |-> NoPrompt,
     resp |-> response]

Caught(h, steps, message) ==
    Exit(steps, JsonResponse(500, [error |-> catchMessage(h, message)]))

Fetching(steps, embedded) ==
    [steps |-> steps, fetch |-> TRUE, prompt |-> embedded, resp |-> NoResp]

(***************************************************************************)
(* Request bodies.  A request names its body; "notJson" is a body that is  *)
(* not valid JSON, on which req.json() throws.                             *)
(***************************************************************************)
\* How far the over-limit inputs exceed the limit they break.
OverBy == 1

TC(id, description, steps, expected) ==
    Obj([id |-> Str(id), description |-> Str(description), steps |-> Str(steps),
         expected |-> Str(expected)])

TC001 == Obj([id |-> Str("TC001"), steps |-> Str("click login"),
              expected |-> Str("dashboard shown")])

LongText == Rep("a", MAX_STRING_LENGTH + OverBy)

FullText == Rep("b", MAX_STRING_LENGTH)

Cases(tcs) == Obj([testCases |-> Arr(tcs), locators |-> EmptyObj, testData |-> EmptyObj])

Filled(n, tc) == [i \in 1..n |-> tc]

\* The data rows of an uploaded CSV of test cases, by the column each cell
\* was found under.
CsvRows ==
    << [id |-> "TC001", description |-> "Login", step |-> "click login",
        expected |-> "dashboard shown"],
       [id |-> "TC002", description |-> "", step |-> "open settings",
        expected |-> "settings shown"] >>

\* The test-case objects the uploader builds from the rows.
handleFileUpload(rows) ==
    [i \in 1..Len(rows) |->
        Obj([id |-> Str(rows[i].id), description |-> Str(rows[i].description),
             step |-> Str(rows[i].step), expected |-> Str(rows[i].expected)])]

\* The body the client sends for the loaded test data.
generateAutomationCode(testCases) ==
    Obj([testCases |-> Arr(testCases), locators |-> Arr(<<>>), testData |-> Arr(<<>>)])

BodyOf(id) ==
    CASE id = "null" -> Null
      [] id = "number" -> Num(7)
      [] id = "string" -> Str("testCases")
      [] id = "array" -> Arr(<<TC001>>)
      [] id = "noTestCases" -> Obj([locators |-> EmptyObj])
      [] id = "empty" -> EmptyObj
      [] id = "tcNull" -> Obj([testCases |-> Null])
      [] id = "tcZero" -> Obj([testCases |-> Num(0)])
      [] id = "tcNumber" -> Obj([testCases |-> Num(3)])
      [] id = "tcString" -> Obj([testCases |-> Str("TC001")])
      [] id = "tcObject" -> Obj([testCases |-> Obj([length |-> Num(1)])])
      [] id = "tcEmpty" -> Cases(<<>>)
      [] id = "one" -> Cases(<<TC001>>)
      [] id = "atLimit" -> Cases(Filled(MAX_TEST_CASES, TC001))
      [] id = "tooMany" -> Cases(Filled(MAX_TEST_CASES + OverBy, TC001))
      [] id = "tooManyNulls" -> Cases(Filled(MAX_TEST_CASES + OverBy, Null))
      [] id = "tooManyLong" ->
           Cases(Filled(MAX_TEST_CASES + OverBy, TC("TC", "", LongText, LongText)))
      [] id = "longSteps" -> Cases(<<TC001, TC("TC002", "", LongText, "ok")>>)
      [] id = "longExpected" -> Cases(<<TC("TC003", "", "go", LongText), TC001>>)
      [] id = "bothLong" -> Cases(<<TC("TC007", "", LongText, LongText)>>)
      [] id = "expectedThenSteps" ->
           Cases(<<TC("TC008", "", "go", LongText), TC("TC009", "", LongText, "ok")>>)
      [] id = "csvUpload" -> generateAutomationCode(handleFileUpload(CsvRows))
      [] id = "fullSteps" -> Cases(<<TC("TC004", "", FullText, FullText)>>)
      [] id = "nullEntry" -> Cases(<<TC001, Null>>)
      [] id = "nullThenLong" -> Cases(<<Null, TC("TC005", "", LongText, "ok")>>)
      [] id = "numberEntry" -> Cases(<<Num(5)>>)
      [] id = "numericFields" ->
           Cases(<<Obj([id |-> Num(7), steps |-> Num(12), expected |-> Arr(<<Str("a"), Null, Num(2)>>),
                        description |-> EmptyObj])>>)
      [] id = "numericStepsLongExpected" ->
           Cases(<<Obj([id |-> Str("TC006"), steps |-> Arr(<<Str(LongText)>>),
                        expected |-> Str(LongText)])>>)
      [] id = "idToString" ->
           Cases(<<Obj([id |-> Obj([toString |-> Num(1)]), steps |-> Str("go"),
                        expected |-> Str("ok")])>>)
      [] id = "longDescription" ->
           Cases(<<TC(Rep("i", MAX_ID_LENGTH + OverBy), LongText, "go", "ok")>>)
      [] id = "listLocators" ->
           Obj([testCases |-> Arr(<<TC001>>),
                locators |-> Arr(<<Obj([locator |-> Str("login"), value |-> Str("#login")])>>),
                testData |-> Str("none")])
      [] id = "boolFields" ->
           Cases(<<Obj([id |-> Bool(TRUE), description |-> Bool(FALSE),
                        steps |-> Str("go"), expected |-> Num(0)])>>)
      [] id = "primitiveEntries" ->
           Cases(<<Num(5), Str("abc"), Bool(TRUE), Arr(<<>>)>>)
      [] id = "numbered" ->
           Cases([i \in 1..(MAX_TEST_CASES + OverBy) |->
                     TC("TC" \o ToString(i), "", "go " \o ToString(i), "ok")])
      [] id = "ordered" ->
           Cases(<<TC("TC-A", "first", "open", "shown"),
                   TC("TC-B", "second", "click", "done"), TC001>>)
      [] id = "mapLocators" ->
           Obj([testCases |-> Arr(<<TC001>>),
                locators |-> Obj([login |-> Str("#login")]),
                testData |-> Obj([user |-> Str("alice")])])
      [] id = "nullLocators" ->
           Obj([testCases |-> Arr(<<TC001>>), locators |-> Null, testData |-> Num(3)])
      [] id = "emptyListLocators" ->
           Obj([testCases |-> Arr(<<TC001>>), locators |-> Arr(<<>>),
                testData |-> Bool(TRUE)])
      [] id = "gherkin" ->
           Obj([url |-> Str("https://example.com/login"),
                scenarioDesc |-> Str(" user logs in ")])
      [] id = "gherkinNoUrl" -> Obj([scenarioDesc |-> Str("user logs in")])
      [] id = "gherkinBlankUrl" -> Obj([url |-> Str("  "), scenarioDesc |-> Str("user logs in")])
      [] id = "gherkinLongUrl" ->
           Obj([url |-> Str(Rep("u", MAX_URL_LENGTH + OverBy)),
                scenarioDesc |-> Str("user logs in")])
      [] id = "gherkinFullUrl" ->
           Obj([url |-> Str(Rep("u", MAX_URL_LENGTH)), scenarioDesc |-> Str("user logs in")])
      [] id = "gherkinFullDesc" ->
           Obj([url |-> Str("https://example.com"),
                scenarioDesc |-> Str(Rep("d", MAX_DESC_LENGTH))])
      [] id = "gherkinShortDesc" ->
           Obj([url |-> Str("https://example.com"), scenarioDesc |-> Str(" abc    ")])
      [] id = "gherkinLongDesc" ->
           Obj([url |-> Str("https://example.com"),
                scenarioDesc |-> Str(Rep("d", MAX_DESC_LENGTH + OverBy))])
      [] id = "gherkinNumbers" -> Obj([url |-> Num(1), scenarioDesc |-> Num(2)])

AutomationBodies ==
    {"null", "number", "string", "array", "noTestCases", "tcNull", "tcZero",
     "tcNumber", "tcString", "tcObject", "tcEmpty", "one", "atLimit", "tooMany",
     "tooManyNulls", "tooManyLong", "longSteps", "longExpected", "fullSteps",
     "nullEntry", "nullThenLong", "numberEntry", "numericFields",
     "numericStepsLongExpected", "idToString", "longDescription", "listLocators",
     "boolFields", "primitiveEntries", "numbered", "ordered", "mapLocators",
     "nullLocators", "emptyListLocators", "bothLong", "expectedThenSteps",
     "csvUpload"}

GherkinBodies ==
    {"gherkin", "gherkinNoUrl", "gherkinBlankUrl", "gherkinLongUrl",
     "gherkinShortDesc", "gherkinLongDesc", "gherkinNumbers", "null", "one",
     "gherkinFullUrl", "gherkinFullDesc"}

\* await req.json()
parseBody(id) ==
    IF id = "notJson" THEN Thrown("Unexpected token in JSON") ELSE Returned(BodyOf(id))

(***************************************************************************)
(* From the arrival of a POST to the gateway call or an early response.    *)
(***************************************************************************)
\* A variant of dispatchValidated that cleans the body before it validates it.
dispatchSanitizeFirst(h, bodyId, e) ==
    LET parsed == parseBody(bodyId)
        validationError == validateAutomationPayload(parsed.value)
        clean == sanitizePayload(parsed.value)
    IN  IF parsed.thrown THEN Caught(h, <<"parse">>, parsed.value)
        ELSE IF clean.thrown
        THEN Caught(h, <<"parse", "sanitize">>, clean.value)
        ELSE IF validationError.thrown
        THEN Caught(h, <<"parse", "sanitize", "validate">>, validationError.value)
        ELSE IF Truthy(validationError.value)
        THEN Exit(<<"parse", "sanitize", "validate">>,
                  JsonResponse(400, [error |-> validationError.value.v]))
        ELSE IF KeyName(h) \notin e
        THEN Exit(<<"parse", "sanitize", "validate", "credential">>,
                  JsonResponse(500, [error |-> ConfigErrorMsg]))
        ELSE Fetching(<<"parse", "sanitize", "validate", "credential", "prompt", "gateway">>,
                      [kind |-> "request", testCases |-> clean.value.testCases,
                       locators |-> clean.value.locators,
                       testData |-> clean.value.testData])

\* cypress, selenium, robot: parse, validate, sanitize, credential, prompt, fetch.
dispatchValidated(h, bodyId, e) ==
    LET parsed == parseBody(bodyId)
        validationError == validateAutomationPayload(parsed.value)
        clean == sanitizePayload(parsed.value)
    IN  IF parsed.thrown THEN Caught(h, <<"parse">>, parsed.value)
        ELSE IF validationError.thrown
        THEN Caught(h, <<"parse", "validate">>, validationError.value)
        ELSE IF Truthy(validationError.value)
        THEN Exit(<<"parse", "validate">>,
                  JsonResponse(400, [error |-> validationError.value.v]))
        ELSE IF clean.thrown
        THEN Caught(h, <<"parse", "validate", "sanitize">>, clean.value)
        ELSE IF KeyName(h) \notin e
        THEN Exit(<<"parse", "validate", "sanitize", "credential">>,
                  JsonResponse(500, [error |-> ConfigErrorMsg]))
        ELSE Fetching(<<"parse", "validate", "sanitize", "credential", "prompt", "gateway">>,
                      [kind |-> "request", testCases |-> clean.value.testCases,
                       locators |-> clean.value.locators,
                       testData |-> clean.value.testData])

\* gherkin: parse, the four input checks, trim and slice, credential, prompt, fetch.
dispatchGherkin(h, bodyId, e) ==
    LET parsed == parseBody(bodyId)
        validationError == validateGherkinInput(parsed.value)
        clean == sanitizeGherkinInput(parsed.value)
    IN  IF parsed.thrown THEN Caught(h, <<"parse">>, parsed.value)
        ELSE IF Truthy(validationError)
        THEN Exit(<<"parse", "validate">>,
                  JsonResponse(400, [error |-> validationError.v]))
        ELSE IF KeyName(h) \notin e
        THEN Exit(<<"parse", "validate", "sanitize", "credential">>,
                  JsonResponse(500, [error |-> ConfigErrorMsg]))
        ELSE Fetching(<<"parse", "validate", "sanitize", "credential", "prompt", "gateway">>,
                      [kind |-> "gherkin", url |-> clean.url,
                       scenarioDesc |-> clean.scenarioDesc])

\* The raw fields a handler without validation embeds in its prompt.
rawFields(body) ==
    [kind |-> "raw", testCases |-> Get(body, "testCases"),
     locators |-> Get(body, "locators"), testData |-> Get(body, "testData")]

\* A variant of dispatchPlaywright that calls the gateway without a credential.
dispatchWithoutCredential(h, bodyId, e) ==
    LET parsed == parseBody(bodyId)
    IN  IF parsed.thrown THEN Caught(h, <<"parse">>, parsed.value)
        ELSE IF Nullish(parsed.value)
        THEN Caught(h, <<"parse">>, "Cannot destructure property 'testCases'")
        ELSE Fetching(<<"parse", "credential", "prompt", "gateway">>,
                      rawFields(parsed.value))

\* playwright: parse and destructure, credential (a thrown Error), prompt, fetch.
dispatchPlaywright(h, bodyId, e) ==
    LET parsed == parseBody(bodyId)
    IN  IF parsed.thrown THEN Caught(h, <<"parse">>, parsed.value)
        ELSE IF Nullish(parsed.value)
        THEN Caught(h, <<"parse">>, "Cannot destructure property 'testCases'")
        ELSE IF KeyName(h) \notin e
        THEN Caught(h, <<"parse", "credential">>, "LOVABLE_API_KEY is not configured")
        ELSE Fetching(<<"parse", "credential", "prompt", "gateway">>,
                      rawFields(parsed.value))

\* robotEarly: parse and destructure, log testCases.length, prompt, credential
\* (a thrown Error), fetch.
dispatchRobotEarly(h, bodyId, e) ==
    LET parsed == parseBody(bodyId)
    IN  IF parsed.thrown THEN Caught(h, <<"parse">>, parsed.value)
        ELSE IF Nullish(parsed.value)
        THEN Caught(h, <<"parse">>, "Cannot destructure property 'testCases'")
        ELSE IF Nullish(Get(parsed.value, "testCases"))
        THEN Caught(h, <<"parse">>, "Cannot read properties of undefined (reading 'length')")
        ELSE IF KeyName(h) \notin e
        THEN Caught(h, <<"parse", "prompt", "credential">>, "GEMINI_API_KEY not configured")
        ELSE Fetching(<<"parse", "prompt", "credential", "gateway">>,
                      rawFields(parsed.value))

dispatch(h, bodyId, e) ==
    CASE h \in ValidatedHandlers -> dispatchValidated(h, bodyId, e)
      [] h = "gherkin" -> dispatchGherkin(h, bodyId, e)
      [] h = "playwright" -> dispatchPlaywright(h, bodyId, e)
      [] OTHER -> dispatchRobotEarly(h, bodyId, e)

(***************************************************************************)
(* From the reply of the upstream to the response.  A reply is a rejected  *)
(* fetch (a transport failure) or an HTTP response: its status, the text   *)
(* of its body and the value its body parses to (InvalidJson when it does  *)
(* not parse).                                                             *)
(***************************************************************************)
InvalidJson == [t |-> "invalid"]

Rejected(message) ==
    [kind |-> "rejected", status |-> 0, text |-> "", data |-> InvalidJson,
     message |-> message]

Replied(status, text, data) ==
    [kind |-> "response", status |-> status, text |-> text, data |-> data,
     message |-> ""]

NoReply == [kind |-> "none", status |-> 0, text |-> "", data |-> InvalidJson, message |-> ""]

\* response.ok
Ok(status) == status >= 200 /\ status <= 299

\* x?.[0]
OptFirst(x) == IF x.t = "array" /\ Len(x.v) > 0 THEN x.v[1] ELSE Undefined

\* A variant of completionContent that does not trim.
completionContentUntrimmed(data) ==
    IF Nullish(data) THEN Thrown("Cannot read properties of null (reading 'choices')")
    ELSE LET content == OptGet(OptGet(OptFirst(Get(data, "choices")), "message"), "content")
         IN  IF Nullish(content) THEN Returned(Undefined)
             ELSE IF content.t = "string" THEN Returned(Str(content.v))
             ELSE Thrown("content.trim is not a function")

\* data.choices?.[0]?.message?.content?.trim(): reading choices of null throws,
\* and so does calling trim on a content that is not a string.
completionContent(data) ==
    IF Nullish(data) THEN Thrown("Cannot read properties of null (reading 'choices')")
    ELSE LET content == OptGet(OptGet(OptFirst(Get(data, "choices")), "message"), "content")
         IN  IF Nullish(content) THEN Returned(Undefined)
             ELSE IF content.t = "string" THEN Returned(Str(Trim(content.v)))
             ELSE Thrown("content.trim is not a function")

\* data.candidates?.[0]?.content?.parts?.[0]?.text || ''
candidateText(data) ==
    IF Nullish(data) THEN Thrown("Cannot read properties of null (reading 'candidates')")
    ELSE Returned(OrElse(OptGet(OptFirst(OptGet(OptGet(OptFirst(Get(data, "candidates")),
                                                        "content"), "parts")), "text"),
                         Str("")))

\* The marker pairs the prompt of a handler tells the model to emit.
promptMarkers(h) ==
    CASE h \in {"cypress", "selenium"} ->
           { <<PAGE_OBJECT_START, PAGE_OBJECT_END>>, <<TEST_FILE_START, TEST_FILE_END>>,
             <<DATA_FILE_START, DATA_FILE_END>> }
      [] h \in {"robot", "robotEarly"} ->
           { <<DATA_FILE_START, DATA_FILE_END>>, <<KEYWORDS_START, KEYWORDS_END>>,
             <<ROBOT_TEST_START, ROBOT_TEST_END>> }
      [] h = "playwright" ->
           { <<PAGE_OBJECT_START, PAGE_OBJECT_END>>, <<TEST_FILE_START, TEST_FILE_END>> }
      [] OTHER -> {}

\* The marker pairs a handler looks for in the completion.
extractedMarkers(h) ==
    CASE h \in {"cypress", "selenium"} ->
           { <<PAGE_OBJECT_START, PAGE_OBJECT_END>>, <<TEST_FILE_START, TEST_FILE_END>>,
             <<DATA_FILE_START, DATA_FILE_END>> }
      [] h \in {"robot", "robotEarly"} ->
           { <<ROBOT_TEST_START, ROBOT_TEST_END>>, <<KEYWORDS_START, KEYWORDS_END>>,
             <<DATA_FILE_START, DATA_FILE_END>> }
      [] h = "playwright" ->
           { <<PAGE_OBJECT_START, PAGE_OBJECT_END>>, <<TEST_FILE_START, TEST_FILE_END>> }
      [] OTHER -> {}

\* The three regex extractions of the Cypress and Selenium handlers.
threeFiles(content) ==
    [pageObject |-> RegexSection(content, PAGE_OBJECT_START, PAGE_OBJECT_END),
     testFile |-> RegexSection(content, TEST_FILE_START, TEST_FILE_END),
     dataFile |-> RegexSection(content, DATA_FILE_START, DATA_FILE_END)]

\* The two regex extractions of the two-file Playwright handler.
twoFiles(content) ==
    [pageObject |-> RegexSection(content, PAGE_OBJECT_START, PAGE_OBJECT_END),
     testFile |-> RegexSection(content, TEST_FILE_START, TEST_FILE_END)]

KeywordsFallback ==
    "# Keywords could not be parsed separately\n# Please review the test file for all content"

DataFileFallback == "# No data file was generated"

OrText(s, d) == IF s # "" THEN s ELSE d

\* A variant of robotFiles without the fallback to the whole text.
robotFilesWithoutFallback(generatedText) ==
    LET robotTest == extractSection(generatedText, ROBOT_TEST_START, ROBOT_TEST_END)
        keywords == extractSection(generatedText, KEYWORDS_START, KEYWORDS_END)
        dataFile == extractSection(generatedText, DATA_FILE_START, DATA_FILE_END)
    IN  [pageObject |-> OrText(keywords, "# No keywords generated"),
         testFile |-> OrText(robotTest, "# No test file generated"),
         dataFile |-> OrText(dataFile, "# No data file generated")]

\* The Robot handler: the three sections, or the whole text as testFile when
\* all three are empty.
robotFiles(generatedText) ==
    LET robotTest == extractSection(generatedText, ROBOT_TEST_START, ROBOT_TEST_END)
        keywords == extractSection(generatedText, KEYWORDS_START, KEYWORDS_END)
        dataFile == extractSection(generatedText, DATA_FILE_START, DATA_FILE_END)
    IN  IF robotTest = "" /\ keywords = "" /\ dataFile = ""
        THEN [pageObject |-> KeywordsFallback, testFile |-> generatedText,
              dataFile |-> DataFileFallback]
        ELSE [pageObject |-> OrText(keywords, "# No keywords generated"),
              testFile |-> OrText(robotTest, "# No test file generated"),
              dataFile |-> OrText(dataFile, "# No data file generated")]

\* The earlier Robot revision returns the three sections as extracted.
robotEarlyFiles(generatedText) ==
    [pageObject |-> extractSection(generatedText, KEYWORDS_START, KEYWORDS_END),
     testFile |-> extractSection(generatedText, ROBOT_TEST_START, ROBOT_TEST_END),
     dataFile |-> extractSection(generatedText, DATA_FILE_START, DATA_FILE_END)]

\* An array has an indexOf of its own, which finds no marker.
noFiles == [pageObject |-> "", testFile |-> "", dataFile |-> ""]

successBody(h, content) ==
    CASE h \in {"cypress", "selenium"} -> threeFiles(content)
      [] h = "robot" -> robotFiles(content)
      [] h = "gherkin" -> [gherkin |-> stripFences(content)]
      [] OTHER -> twoFiles(content)

Respond(steps, response) == [steps |-> Append(steps, "respond"), resp |-> response]

CaughtLate(h, message) ==
    Respond(<<>>, JsonResponse(500, [error |-> catchMessage(h, message)]))

\* A variant of upstreamError that mirrors the status of the upstream.
upstreamErrorMirrored(h, status) ==
    JsonResponse(status, [error |-> GenericMsg(h)])

\* The mapping of a non-2xx upstream status in the hardened handlers.
upstreamError(h, status) ==
    IF status = 429 THEN JsonResponse(429, [error |-> GenerationLimitMsg])
    ELSE IF status = 402 THEN JsonResponse(402, [error |-> PaymentRequiredMsg])
    ELSE JsonResponse(500, [error |-> GenericMsg(h)])

\* cypress, selenium, robot, gherkin after the fetch has settled.
finishHardened(h, reply) ==
    LET content == completionContent(reply.data)
    IN  IF reply.kind = "rejected" THEN CaughtLate(h, reply.message)
        ELSE IF ~Ok(reply.status) THEN Respond(<<>>, upstreamError(h, reply.status))
        ELSE IF reply.data.t = "invalid" THEN CaughtLate(h, "Unexpected token in JSON")
        ELSE IF content.thrown THEN CaughtLate(h, content.value)
        ELSE IF ~Truthy(content.value)
        THEN Respond(<<>>, JsonResponse(500, [error |-> GenericMsg(h)]))
        ELSE Respond(<<"extract">>, JsonResponse(200, successBody(h, content.value.v)))

\* playwright after the fetch has settled: 429 and 402 are answered in place,
\* every other failure is a thrown Error whose message the catch block returns.
finishPlaywright(h, reply) ==
    LET content == completionContent(reply.data)
    IN  IF reply.kind = "rejected" THEN CaughtLate(h, reply.message)
        ELSE IF ~Ok(reply.status)
        THEN IF reply.status = 429
             THEN Respond(<<>>, JsonResponse(429, [error |-> RateLimitMsg]))
             ELSE IF reply.status = 402
             THEN Respond(<<>>, JsonResponse(402, [error |-> PaymentRequiredMsg]))
             ELSE CaughtLate(h, "Failed to generate Playwright code from AI")
        ELSE IF reply.data.t = "invalid" THEN CaughtLate(h, "Unexpected token in JSON")
        ELSE IF content.thrown THEN CaughtLate(h, content.value)
        ELSE IF ~Truthy(content.value) THEN CaughtLate(h, "No content received from AI")
        ELSE Respond(<<"extract">>, JsonResponse(200, successBody(h, content.value.v)))

\* robotEarly after the fetch has settled: 429 also when the error text
\* includes "quota" or "rate"; no check for an empty completion.
finishRobotEarly(h, reply) ==
    LET generated == candidateText(reply.data)
    IN  IF reply.kind = "rejected" THEN CaughtLate(h, reply.message)
        ELSE IF ~Ok(reply.status)
        THEN IF \/ reply.status = 429
                \/ Contains(reply.text, "quota")
                \/ Contains(reply.text, "rate")
             THEN Respond(<<>>, JsonResponse(429, [error |-> GenerationLimitMsg]))
             ELSE CaughtLate(h, "Gemini API error: " \o ToString(reply.status))
        ELSE IF reply.data.t = "invalid" THEN CaughtLate(h, "Unexpected token in JSON")
        ELSE IF generated.thrown THEN CaughtLate(h, generated.value)
        ELSE IF generated.value.t = "array"
        THEN Respond(<<"extract">>, JsonResponse(200, noFiles))
        ELSE IF generated.value.t # "string"
        THEN CaughtLate(h, "text.indexOf is not a function")
        ELSE Respond(<<"extract">>,
                     JsonResponse(200, robotEarlyFiles(generated.value.v)))

\* A variant of finish in which the reply of the upstream is kept in a variable
\* of the module, which the request of the second slot overwrites.
finishSharedReply(h, reply) ==
    LET last == IF upstream[2].kind # "none" THEN upstream[2] ELSE reply
    IN  CASE h \in HardenedHandlers -> finishHardened(h, last)
          [] h = "playwright" -> finishPlaywright(h, last)
          [] OTHER -> finishRobotEarly(h, last)

finish(h, reply) ==
    CASE h \in HardenedHandlers -> finishHardened(h, reply)
      [] h = "playwright" -> finishPlaywright(h, reply)
      [] OTHER -> finishRobotEarly(h, reply)

(***************************************************************************)
(* Upstream replies.                                                       *)
(***************************************************************************)
\* The chat-completion shape of the gateway.
Completion(content) ==
    Obj([choices |-> Arr(<<Obj([message |-> Obj([content |-> content])])>>)])

\* The generateContent shape of the Gemini API.
Candidate(text) ==
    Obj([candidates |->
           Arr(<<Obj([content |-> Obj([parts |-> Arr(<<Obj([text |-> text])>>)])])>>)])

ThreeFileText ==
    PAGE_OBJECT_START \o "\nclass P {}\n" \o PAGE_OBJECT_END \o "\n\n"
        \o TEST_FILE_START \o "\nit('t')\n" \o TEST_FILE_END \o "\n\n"
        \o DATA_FILE_START \o "\n{}\n" \o DATA_FILE_END

RobotText ==
    "\n" \o DATA_FILE_START \o "\nURL = ''\n" \o DATA_FILE_END \o "\n"
        \o KEYWORDS_START \o "\nOpen Page\n" \o KEYWORDS_END \o "\n"
        \o ROBOT_TEST_START \o "\nLogin Works\n" \o ROBOT_TEST_END \o "\n"

FeatureText == "Feature: Login\n  Scenario: ok"

\* A completion with white space around it and one marker without its partner.
LoneMarkerText ==
    "\n*** Test Cases ***\n" \o ROBOT_TEST_START \o "\nLogin Works\n "

\* A completion with the page object and the test file and no data file.
TwoSectionText ==
    PAGE_OBJECT_START \o "\nclass P {}\n" \o PAGE_OBJECT_END \o "\n\n"
        \o TEST_FILE_START \o "\nit('t')\n" \o TEST_FILE_END \o "\n"

\* A completion whose three marker pairs have nothing but white space in them.
BlankPairText ==
    ROBOT_TEST_START \o "\n \n" \o ROBOT_TEST_END \o "\n"
        \o KEYWORDS_START \o "\n" \o KEYWORDS_END \o "\n"
        \o DATA_FILE_START \o DATA_FILE_END

FencedText == Fence \o "gherkin\n" \o FeatureText \o "\n" \o Fence

\* A completion that is an opening and a closing fence with nothing in them.
FenceOnlyText == Fence \o "gherkin\n" \o Fence

Replies ==
    << Rejected("connection refused"),
       Rejected("dns error: rate limited lookup"),
       Replied(429, "slow down", InvalidJson),
       Replied(429, "quota exceeded", InvalidJson),
       Replied(402, "payment required", InvalidJson),
       Replied(402, "no credits; separate billing", InvalidJson),
       Replied(500, "internal error", InvalidJson),
       Replied(404, "model is not supported for generateContent", InvalidJson),
       Replied(503, "", InvalidJson),
       Replied(200, "<html>", InvalidJson),
       Replied(200, "null", Null),
       Replied(200, "{}", EmptyObj),
       Replied(200, "", Obj([choices |-> Arr(<<>>)])),
       Replied(200, "", Completion(Null)),
       Replied(200, "", Completion(Str(""))),
       Replied(200, "", Completion(Str(" \n\t "))),
       Replied(200, "", Completion(Num(5))),
       Replied(200, "", Completion(Str(ThreeFileText))),
       Replied(201, "", Completion(Str(RobotText))),
       Replied(200, "", Completion(Str(FeatureText))),
       Replied(200, "", Completion(Str(FencedText))),
       Replied(200, "", Candidate(Str(RobotText))),
       Replied(200, "", Candidate(Str(" \n "))),
       Replied(200, "", Obj([candidates |-> Arr(<<>>)])),
       Replied(200, "", Completion(Str(TwoSectionText))),
       Replied(200, "", Completion(Str(LoneMarkerText))),
       Replied(200, "", Completion(Str(BlankPairText))),
       Replied(200, "", Completion(Str(FenceOnlyText))) >>

(***************************************************************************)
(* The state machine.  Each slot holds one request: the environment        *)
(* delivers it (Receive), the handler answers a preflight (Preflight) or   *)
(* runs until it awaits the gateway or responds (Dispatch), the upstream   *)
(* settles the call (Settle) and the handler finishes (Finish).  A handler *)
(* runs without interruption between two awaits.                           *)
(***************************************************************************)
Slots == {1, 2}

NoSection == [by |-> "none", value |-> ""]

NoReq == [handler |-> "", method |-> "", body |-> ""]

EnvKeys == {"LOVABLE_API_KEY", "GEMINI_API_KEY"}

NotRun == [run |-> FALSE]

\* No request has arrived and no completion has been produced.
InitHandlers ==
    /\ env \in SUBSET EnvKeys
    /\ req = [r \in Slots |-> NoReq]
    /\ pc = [r \in Slots |-> "idle"]
    /\ trace = [r \in Slots |-> <<>>]
    /\ calls = [r \in Slots |-> 0]
    /\ upstream = [r \in Slots |-> NoReply]
    /\ prompt = [r \in Slots |-> NoPrompt]
    /\ resp = [r \in Slots |-> NoResp]
    /\ source = <<>>
    /\ section = NoSection

Init ==
    /\ InitHandlers
    /\ given = "empty"
    /\ cleaned = NotRun
    /\ again = NotRun
    /\ checked = NotRun
    /\ rechecked = NotRun

Receive(r, rq) ==
    /\ pc[r] = "idle"
    /\ req' = [req EXCEPT ![r] = rq]
    /\ pc' = [pc EXCEPT ![r] = "received"]
    /\ UNCHANGED <<env, trace, calls, upstream, prompt, resp>>
    /\ UNCHANGED <<extractVars, sanitizeVars, validateVars>>

Preflight(r) ==
    /\ pc[r] = "received"
    /\ req[r].method = "OPTIONS"
    /\ resp' = [resp EXCEPT ![r] = preflightResponse(req[r].handler)]
    /\ trace' = [trace EXCEPT ![r] = <<"respond">>]
    /\ pc' = [pc EXCEPT ![r] = "responded"]
    /\ UNCHANGED <<env, req, calls, upstream, prompt>>
    /\ UNCHANGED <<extractVars, sanitizeVars, validateVars>>

Dispatch(r) ==
    /\ pc[r] = "received"
    /\ req[r].method # "OPTIONS"
    /\ LET out == dispatch(req[r].handler, req[r].body, env)
       IN  /\ trace' = [trace EXCEPT ![r] = out.steps]
           /\ prompt' = [prompt EXCEPT ![r] = out.prompt]
           /\ resp' = [resp EXCEPT ![r] = out.resp]
           /\ calls' = [calls EXCEPT ![r] = IF out.fetch THEN @ + 1 ELSE @]
           /\ pc' = [pc EXCEPT ![r] = IF out.fetch THEN "calling" ELSE "responded"]
    /\ UNCHANGED <<env, req, upstream>>
    /\ UNCHANGED <<extractVars, sanitizeVars, validateVars>>

Settle(r, reply) ==
    /\ pc[r] = "calling"
    /\ upstream' = [upstream EXCEPT ![r] = reply]
    /\ pc' = [pc EXCEPT ![r] = "settled"]
    /\ UNCHANGED <<env, req, trace, calls, prompt, resp>>
    /\ UNCHANGED <<extractVars, sanitizeVars, validateVars>>

Finish(r) ==
    /\ pc[r] = "settled"
    /\ LET out == finish(req[r].handler, upstream[r])
       IN  /\ trace' = [trace EXCEPT ![r] = @ \o out.steps]
           /\ resp' = [resp EXCEPT ![r] = out.resp]
    /\ pc' = [pc EXCEPT ![r] = "responded"]
    /\ UNCHANGED <<env, req, calls, upstream, prompt>>
    /\ UNCHANGED <<extractVars, sanitizeVars, validateVars>>

BodiesFor(h) ==
    CASE h \in ValidatedHandlers -> AutomationBodies \cup {"notJson"}
      [] h = "gherkin" -> GherkinBodies \cup {"notJson"}
      [] OTHER -> {"null", "empty", "tcNull", "tcNumber", "one", "nullEntry", "notJson"}

RequestsOf(h) ==
    {[handler |-> h, method |-> "POST", body |-> b] : b \in BodiesFor(h)}
        \cup {[handler |-> h, method |-> "OPTIONS", body |-> b] : b \in {"one", "notJson"}}

\* One request at a time, drawn from the whole catalogue.
Next ==
    \/ \E h \in Handlers : \E rq \in RequestsOf(h) : Receive(1, rq)
    \/ Preflight(1)
    \/ Dispatch(1)
    \/ \E i \in 1..Len(Replies) : Settle(1, Replies[i])
    \/ Finish(1)

Spec == Init /\ [][Next]_vars

(***************************************************************************)
(* Two requests in flight at once.  The isolate interleaves two handler    *)
(* runs at their awaits; the requests and the replies of the upstream are  *)
(* drawn from a small catalogue in which replies of one status differ in   *)
(* their body and rejected fetches differ in their message.                *)
(***************************************************************************)
ConcurrentBodies(h) ==
    IF h = "gherkin" THEN {"gherkin", "gherkinNoUrl", "notJson"}
    ELSE {"one", "nullEntry", "idToString", "notJson"}

ConcurrentRequests(h) ==
    {[handler |-> h, method |-> "POST", body |-> b] : b \in ConcurrentBodies(h)}
        \cup {[handler |-> h, method |-> "OPTIONS", body |-> "one"]}

ConcurrentReplies ==
    << Rejected("connection refused"),
       Rejected("dns error: rate limited lookup"),
       Replied(429, "slow down", InvalidJson),
       Replied(429, "quota exceeded", InvalidJson),
       Replied(500, "internal error", InvalidJson),
       Replied(500, "upstream stack trace", InvalidJson),
       Replied(200, "<html>", InvalidJson),
       Replied(200, "", Completion(Num(5))),
       Replied(200, "", Completion(Str(ThreeFileText))) >>

NextConcurrent ==
    \E r \in Slots :
        \/ \E h \in HardenedHandlers : \E rq \in ConcurrentRequests(h) : Receive(r, rq)
        \/ Preflight(r)
        \/ Dispatch(r)
        \/ \E i \in 1..Len(ConcurrentReplies) : Settle(r, ConcurrentReplies[i])
        \/ Finish(r)

SpecConcurrent == Init /\ [][NextConcurrent]_vars

(***************************************************************************)
(* The section extractors on their own.  A completion is put together from *)
(* pieces (markers, text, white space), and either extractor is applied to *)
(* it with the markers of the data file.                                   *)
(***************************************************************************)
\* The most pieces a completion is made of.
MaxPieces == 4

Pieces == {DATA_FILE_START, DATA_FILE_END, "x", " ", "\n"}

RECURSIVE Concat(_)
Concat(pieces) ==
    IF pieces = <<>> THEN "" ELSE Head(pieces) \o Concat(Tail(pieces))

\* The upstream produces one more piece of the completion.
Emit(piece) ==
    /\ section = NoSection
    /\ Len(source) < MaxPieces
    /\ source' = Append(source, piece)
    /\ UNCHANGED <<section, handlerVars, sanitizeVars, validateVars>>

\* The regex form of the Cypress, Selenium and Playwright handlers.
ExtractByRegex ==
    /\ section = NoSection
    /\ section' = [by |-> "regex",
                   value |-> RegexSection(Concat(source), DATA_FILE_START, DATA_FILE_END)]
    /\ UNCHANGED <<source, handlerVars, sanitizeVars, validateVars>>

\* extractSection of the Robot handler.
ExtractByIndexOf ==
    /\ section = NoSection
    /\ section' = [by |-> "indexOf",
                   value |-> extractSection(Concat(source), DATA_FILE_START, DATA_FILE_END)]
    /\ UNCHANGED <<source, handlerVars, sanitizeVars, validateVars>>

NextExtract ==
    \/ \E piece \in Pieces : Emit(piece)
    \/ ExtractByRegex
    \/ ExtractByIndexOf

SpecExtract == Init /\ [][NextExtract]_vars

(***************************************************************************)
(* sanitizePayload on its own: it is applied to a body of the catalogue,   *)
(* and then to the object it returned.                                     *)
(***************************************************************************)
InitSanitize ==
    /\ InitHandlers
    /\ given \in AutomationBodies
    /\ cleaned = NotRun
    /\ again = NotRun
    /\ checked = NotRun
    /\ rechecked = NotRun

Ran(result) == [run |-> TRUE, thrown |-> result.thrown, value |-> result.value]

\* The object sanitizePayload returned, as the value the next call reads.
AsBody(request) ==
    Obj([testCases |->
             Arr([i \in 1..Len(request.testCases) |->
                     Obj([f \in DOMAIN request.testCases[i] |->
                             Str(request.testCases[i][f])])]),
         locators |-> request.locators,
         testData |-> request.testData])

Sanitize ==
    /\ ~cleaned.run
    /\ cleaned' = Ran(sanitizePayload(BodyOf(given)))
    /\ UNCHANGED <<given, again, handlerVars, extractVars, validateVars>>

SanitizeAgain ==
    /\ cleaned.run
    /\ ~cleaned.thrown
    /\ ~again.run
    /\ again' = Ran(sanitizePayload(AsBody(cleaned.value)))
    /\ UNCHANGED <<given, cleaned, handlerVars, extractVars, validateVars>>

NextSanitize ==
    \/ Sanitize
    \/ SanitizeAgain

SpecSanitize == InitSanitize /\ [][NextSanitize]_vars

(***************************************************************************)
(* The validator on its own, and the sanitizer behind it: the validator is *)
(* applied to a body of the catalogue, twice, and sanitizePayload to the   *)
(* bodies the validator found no fault with, as in the handlers.           *)
(***************************************************************************)
Validate ==
    /\ ~checked.run
    /\ checked' = Ran(validateAutomationPayload(BodyOf(given)))
    /\ UNCHANGED <<rechecked, sanitizeVars, handlerVars, extractVars>>

ValidateAgain ==
    /\ checked.run
    /\ ~rechecked.run
    /\ rechecked' = Ran(validateAutomationPayload(BodyOf(given)))
    /\ UNCHANGED <<checked, sanitizeVars, handlerVars, extractVars>>

\* if (validationError) return ...; sanitizePayload(body)
SanitizeValid ==
    /\ checked.run
    /\ ~checked.thrown
    /\ ~Truthy(checked.value)
    /\ Sanitize

NextValidate ==
    \/ Validate
    \/ ValidateAgain
    \/ SanitizeValid

SpecValidate == InitSanitize /\ [][NextValidate]_vars

(***************************************************************************)
(* The fence stripping of the Gherkin handler on its own, on completions   *)
(* put together from fences, the language tag, line breaks and text.       *)
(***************************************************************************)
FencePieces == {Fence, "gherkin", "\n", "Feature: x"}

\* The Gherkin handler trims the completion, gives up on an empty one and
\* strips the fences of any other.
StripFences ==
    /\ section = NoSection
    /\ Trim(Concat(source)) # ""
    /\ section' = [by |-> "fence", value |-> stripFences(Trim(Concat(source)))]
    /\ UNCHANGED <<source, handlerVars, sanitizeVars, validateVars>>

NextFence ==
    \/ \E piece \in FencePieces : Emit(piece)
    \/ StripFences

SpecFence == Init /\ [][NextFence]_vars

(***************************************************************************)
(* Properties of the validated handlers (cypress, selenium, robot).        *)
(***************************************************************************)
\* A POST to a validated handler whose body parsed, once answered.
AnsweredPost(r) ==
    /\ pc[r] = "responded"
    /\ req[r].method = "POST"
    /\ req[r].handler \in ValidatedHandlers
    /\ req[r].body # "notJson"

\* body.testCases, read as data: undefined when the body is no object or has
\* no such key.
TestCasesOf(body) ==
    IF body.t = "object" /\ "testCases" \in DOMAIN body.v THEN body.v.testCases
    ELSE Undefined

\* testCases is missing, null, not an array, or an empty array.
LacksTestCases(body) ==
    \/ TestCasesOf(body).t # "array"
    \/ TestCasesOf(body).v = <<>>

\* C1: in the validated handlers, a POST body whose testCases is missing,
\* null, not an array or an empty array makes validateAutomationPayload return
\* exactly the "No test cases provided" message, and the handler answers 400
\* with {error: that message}.
C1_NoTestCasesRejected ==
    \A r \in Slots :
        (AnsweredPost(r) /\ LacksTestCases(BodyOf(req[r].body))) =>
            /\ validateAutomationPayload(BodyOf(req[r].body))
                 = [thrown |-> FALSE,
                    value |-> Str("No test cases provided. Please upload a valid CSV first.")]
            /\ resp[r].status = 400
            /\ resp[r].json
            /\ resp[r].body
                 = [error |-> "No test cases provided. Please upload a valid CSV first."]

C1_Witness ==
    \E r \in Slots :
        /\ AnsweredPost(r)
        /\ req[r].body = "tcEmpty"
        /\ LacksTestCases(BodyOf(req[r].body))
        /\ resp[r].status = 400

\* More than MAX_TEST_CASES entries.
HasTooManyCases(body) ==
    /\ TestCasesOf(body).t = "array"
    /\ Len(TestCasesOf(body).v) > 50

\* C2: a POST body whose testCases array has more than 50 entries is answered
\* 400 by the validated handlers with an error message that contains "50",
\* whatever the entries are.
C2_TooManyRejected ==
    \A r \in Slots :
        (AnsweredPost(r) /\ HasTooManyCases(BodyOf(req[r].body))) =>
            /\ resp[r].status = 400
            /\ resp[r].json
            /\ DOMAIN resp[r].body = {"error"}
            /\ Contains(resp[r].body.error, "50")

C2_Witness ==
    \E r \in Slots :
        /\ AnsweredPost(r)
        /\ req[r].body = "tooManyNulls"
        /\ HasTooManyCases(BodyOf(req[r].body))
        /\ resp[r].status = 400

\* An entry that is an object whose field f is a string longer than 1000.
OverlongField(tc, f) ==
    /\ tc.t = "object"
    /\ f \in DOMAIN tc.v
    /\ tc.v[f].t = "string"
    /\ Len(tc.v[f].v) > 1000

HasOverlongCase(body) ==
    /\ TestCasesOf(body).t = "array"
    /\ \E i \in 1..Len(TestCasesOf(body).v) :
          \/ OverlongField(TestCasesOf(body).v[i], "steps")
          \/ OverlongField(TestCasesOf(body).v[i], "expected")

\* C3: a POST body with at least one test case whose steps or expected is a
\* string longer than 1000 characters makes the validator return a non-null
\* error, and the handler answers 400 without running sanitizePayload.
C3_OverlongRejected ==
    \A r \in Slots :
        (AnsweredPost(r) /\ HasOverlongCase(BodyOf(req[r].body))) =>
            /\ ~validateAutomationPayload(BodyOf(req[r].body)).thrown
            /\ validateAutomationPayload(BodyOf(req[r].body)).value.t = "string"
            /\ resp[r].status = 400
            /\ \A i \in 1..Len(trace[r]) : trace[r][i] # "sanitize"

\* The state in which C3 fails: a null entry before the over-long one.
C3_Witness ==
    \E r \in Slots :
        /\ AnsweredPost(r)
        /\ req[r].body = "nullThenLong"
        /\ HasOverlongCase(BodyOf(req[r].body))
        /\ resp[r].status = 500

(***************************************************************************)
(* The order of the steps, the credential and the gateway calls.           *)
(***************************************************************************)
Has(steps, step) == \E i \in 1..Len(steps) : steps[i] = step

\* The steps of a trace other than the parse of the body and the response.
Inner(steps) == SelectSeq(steps, LAMBDA x : x \notin {"parse", "respond"})

StepOrder == <<"validate", "sanitize", "credential", "prompt", "gateway", "extract">>

IsPrefix(a, b) == Len(a) <= Len(b) /\ SubSeq(b, 1, Len(a)) = a

\* The content of the first completion, read as data: undefined wherever a
\* link of choices[0].message.content is missing.
FirstContent(data) ==
    IF /\ data.t = "object"
       /\ "choices" \in DOMAIN data.v
       /\ data.v.choices.t = "array"
       /\ Len(data.v.choices.v) >= 1
       /\ data.v.choices.v[1].t = "object"
       /\ "message" \in DOMAIN data.v.choices.v[1].v
       /\ data.v.choices.v[1].v.message.t = "object"
       /\ "content" \in DOMAIN data.v.choices.v[1].v.message.v
    THEN data.v.choices.v[1].v.message.v.content
    ELSE Undefined

\* Absent, empty, or nothing but white space.
BlankContent(c) ==
    \/ c.t \in {"undefined", "null"}
    \/ c.t = "string"
         /\ \A i \in 1..Len(c.v) : SubSeq(c.v, i, i) \in {" ", "\n", "\t", "\r"}

IsErrorResponse(response) ==
    /\ response.status \in {400, 402, 429, 500}
    /\ response.json
    /\ DOMAIN response.body = {"error"}

\* C4: a POST to a validated handler takes the steps validate, sanitize,
\* credential, prompt, gateway, extract and respond in that order, each at
\* most once (its trace is a prefix of that order, closed by respond); the
\* gateway call is issued only when the validator returned null and the
\* credential is present; extraction starts only after the call has resolved
\* with a 2xx status and a completion that is not blank; a run that stops
\* before extraction ends in an error response.
C4_StepOrder ==
    \A r \in Slots :
        (req[r].handler \in ValidatedHandlers /\ req[r].method = "POST") =>
            /\ IsPrefix(Inner(trace[r]), StepOrder)
            /\ \A i \in 1..Len(trace[r]) :
                  /\ trace[r][i] = "respond" => i = Len(trace[r])
                  /\ trace[r][i] = "parse" => i = 1
            /\ (Has(trace[r], "gateway") \/ calls[r] > 0) =>
                  /\ req[r].body # "notJson"
                  /\ validateAutomationPayload(BodyOf(req[r].body))
                       = [thrown |-> FALSE, value |-> Null]
                  /\ "LOVABLE_API_KEY" \in env
                  /\ Has(trace[r], "gateway")
                  /\ calls[r] = 1
            /\ Has(trace[r], "extract") =>
                  /\ upstream[r].kind = "response"
                  /\ upstream[r].status \in 200..299
                  /\ ~BlankContent(FirstContent(upstream[r].data))
            /\ (pc[r] = "responded") = Has(trace[r], "respond")
            /\ (pc[r] = "responded" /\ ~Has(trace[r], "extract")) =>
                  IsErrorResponse(resp[r])

C4_Witness ==
    \E r \in Slots :
        /\ req[r].handler \in ValidatedHandlers
        /\ req[r].method = "POST"
        /\ pc[r] = "responded"
        /\ trace[r] = <<"parse", "validate", "sanitize", "credential", "prompt",
                        "gateway", "extract", "respond">>
        /\ resp[r].status = 200

\* The input checks of the handler let the body through (the handlers without
\* checks take any body that parses).
PassesValidation(h, bodyId) ==
    /\ bodyId # "notJson"
    /\ h \in ValidatedHandlers =>
          validateAutomationPayload(BodyOf(bodyId)) = [thrown |-> FALSE, value |-> Null]
    /\ h = "gherkin" => validateGherkinInput(BodyOf(bodyId)).t = "null"

\* The environment variable the handler reads its credential from.
CredentialOf(h) == IF h = "robotEarly" THEN "GEMINI_API_KEY" ELSE "LOVABLE_API_KEY"

\* C5: when the credential of the handler is absent, no gateway call is ever
\* made for a POST request, and a request that passes validation is answered
\* with status 500 and a JSON error body.
C5_NoCredentialNoCall ==
    \A r \in Slots :
        (req[r].method = "POST" /\ CredentialOf(req[r].handler) \notin env) =>
            /\ calls[r] = 0
            /\ pc[r] \notin {"calling", "settled"}
            /\ ~Has(trace[r], "gateway")
            /\ (pc[r] = "responded" /\ PassesValidation(req[r].handler, req[r].body)) =>
                  /\ resp[r].status = 500
                  /\ resp[r].json
                  /\ DOMAIN resp[r].body = {"error"}

C5_Witness ==
    \E r \in Slots :
        /\ req[r].method = "POST"
        /\ req[r].handler = "cypress"
        /\ "LOVABLE_API_KEY" \notin env
        /\ PassesValidation(req[r].handler, req[r].body)
        /\ pc[r] = "responded"
        /\ resp[r].status = 500
        /\ calls[r] = 0

\* C6: a request causes at most one gateway call on every path, and exactly
\* one once answered when the validator of its handler let the body through
\* and the credential is present.
C6_ExactlyOneCall ==
    \A r \in Slots :
        /\ calls[r] <= 1
        /\ ( /\ pc[r] = "responded"
             /\ req[r].method = "POST"
             /\ req[r].handler \in HardenedHandlers
             /\ PassesValidation(req[r].handler, req[r].body)
             /\ CredentialOf(req[r].handler) \in env ) => calls[r] = 1

\* The state in which C6 fails: the validator returned null, the credential
\* is present, and the request was answered without a gateway call.
C6_Witness ==
    \E r \in Slots :
        /\ pc[r] = "responded"
        /\ req[r].method = "POST"
        /\ req[r].body = "idToString"
        /\ req[r].handler \in ValidatedHandlers
        /\ PassesValidation(req[r].handler, req[r].body)
        /\ "LOVABLE_API_KEY" \in env
        /\ calls[r] = 0
        /\ resp[r].status = 500

\* The no-retry part of C6, which holds: no path issues a second call.
C6_AtMostOneCall == \A r \in Slots : calls[r] <= 1

\* C7: the status of the response is a function of the status of the
\* upstream: 429 gives 429 with an error that contains "limit", 402 gives
\* 402, any other non-2xx status gives 500; and 429 or 402 is returned only
\* when the upstream returned that same status.
C7_StatusMapping ==
    \A r \in Slots :
        pc[r] = "responded" =>
            /\ ( /\ upstream[r].kind = "response"
                 /\ upstream[r].status \notin 200..299 ) =>
                   /\ resp[r].status = CASE upstream[r].status = 429 -> 429
                                         [] upstream[r].status = 402 -> 402
                                         [] OTHER -> 500
                   /\ upstream[r].status = 429 => Contains(resp[r].body.error, "limit")
            /\ resp[r].status \in {429, 402} =>
                   /\ upstream[r].kind = "response"
                   /\ upstream[r].status = resp[r].status

\* The state in which C7 fails: the earlier Robot revision answers 429 to an
\* upstream 404 whose body contains "rate".
C7_Witness ==
    \E r \in Slots :
        /\ pc[r] = "responded"
        /\ req[r].handler = "robotEarly"
        /\ upstream[r].kind = "response"
        /\ upstream[r].status = 404
        /\ resp[r].status = 429

\* C7 for the handlers other than the earlier Robot revision, where it holds.
C7_StatusMappingLater ==
    \A r \in Slots :
        (pc[r] = "responded" /\ req[r].handler # "robotEarly") =>
            /\ ( /\ upstream[r].kind = "response"
                 /\ upstream[r].status \notin 200..299 ) =>
                   /\ resp[r].status = CASE upstream[r].status = 429 -> 429
                                         [] upstream[r].status = 402 -> 402
                                         [] OTHER -> 500
                   /\ upstream[r].status = 429 => Contains(resp[r].body.error, "limit")
            /\ resp[r].status \in {429, 402} =>
                   /\ upstream[r].kind = "response"
                   /\ upstream[r].status = resp[r].status

\* The handlers that read the first completion of a chat-completion reply.
CompletionHandlers == HardenedHandlers \cup {"playwright"}

\* The upstream answered 2xx with a body that parses and whose first
\* completion has no content, or a blank one.
BlankCompletion(r) ==
    /\ upstream[r].kind = "response"
    /\ upstream[r].status \in 200..299
    /\ upstream[r].data.t # "invalid"
    /\ BlankContent(FirstContent(upstream[r].data))

\* C9: when the upstream answers 2xx and the content of the first completion
\* is absent, empty or only white space, the handler answers 500 with a JSON
\* error body and neither extracts nor answers 200.
C9_BlankCompletion ==
    \A r \in Slots :
        ( /\ pc[r] = "responded"
          /\ req[r].handler \in CompletionHandlers
          /\ BlankCompletion(r) ) =>
            /\ resp[r].status = 500
            /\ resp[r].json
            /\ DOMAIN resp[r].body = {"error"}
            /\ ~Has(trace[r], "extract")

C9_Witness ==
    \E r \in Slots :
        /\ pc[r] = "responded"
        /\ req[r].handler = "robot"
        /\ BlankCompletion(r)
        /\ FirstContent(upstream[r].data) = Str(" \n\t ")
        /\ resp[r].status = 500

(***************************************************************************)
(* What the error responses of the hardened handlers depend on.            *)
(***************************************************************************)
FixedMessages ==
    { "No test cases provided. Please upload a valid CSV first.",
      "Too many test cases. Maximum is 50.",
      "Test case step too long (max 1000 chars).",
      "Test case expected result too long (max 1000 chars).",
      "A valid URL is required.",
      "URL must be less than 500 characters.",
      "A scenario description of at least 5 characters is required.",
      "Scenario description must be less than 2000 characters.",
      "Service configuration error. Please try again later.",
      "AI Generation limit reached. Please try again later.",
      "Payment required. Please add credits to your workspace.",
      "Failed to generate code. Please try again.",
      "Failed to generate Gherkin. Please try again." }

\* Two replies that differ at most in the body text of the response or in the
\* message of the rejection.
SameButText(a, b) ==
    /\ a.kind = b.kind
    /\ a.status = b.status
    /\ a.data = b.data

\* C8: in the hardened handlers the error string of a non-200 response is one
\* of a fixed set of messages, and two runs of one request that differ only in
\* the body text of the upstream response or in the message of the thrown
\* exception end in the same response.
C8_ErrorsIndependentOfUpstreamText ==
    /\ \A r \in Slots :
          ( /\ pc[r] = "responded"
            /\ req[r].handler \in HardenedHandlers
            /\ req[r].method = "POST"
            /\ resp[r].status # 200 ) =>
              /\ resp[r].json
              /\ DOMAIN resp[r].body = {"error"}
              /\ resp[r].body.error \in FixedMessages
    /\ \A r1, r2 \in Slots :
          ( /\ pc[r1] = "responded"
            /\ pc[r2] = "responded"
            /\ req[r1].handler \in HardenedHandlers
            /\ req[r1] = req[r2]
            /\ SameButText(upstream[r1], upstream[r2]) ) => resp[r1] = resp[r2]

C8_Witness ==
    /\ pc[1] = "responded"
    /\ pc[2] = "responded"
    /\ req[1].handler = "cypress"
    /\ req[1].method = "POST"
    /\ req[1] = req[2]
    /\ upstream[1].kind = "rejected"
    /\ upstream[2].kind = "rejected"
    /\ upstream[1].message # upstream[2].message
    /\ resp[1].status = 500
    /\ resp[1] = resp[2]

(***************************************************************************)
(* What the section extractors return.                                     *)
(***************************************************************************)
Blank(s) == \A i \in 1..Len(s) : SubSeq(s, i, i) \in {" ", "\n", "\t", "\r"}

\* t is s without its leading and trailing white space, nothing else changed.
IsTrimOf(t, s) ==
    \E i \in 0..Len(s) : \E j \in i..Len(s) :
        /\ t = SubSeq(s, i + 1, j)
        /\ Blank(SubSeq(s, 1, i))
        /\ Blank(SubSeq(s, j + 1, Len(s)))
        /\ t # "" => /\ ~Blank(SubSeq(t, 1, 1))
                     /\ ~Blank(SubSeq(t, Len(t), Len(t)))

\* marker occurs in s at offset k (counted from 0).
At(s, marker, k) ==
    /\ k >= 0
    /\ k + Len(marker) <= Len(s)
    /\ SubSeq(s, k + 1, k + Len(marker)) = marker

\* The offsets at or after from at which marker occurs in s.
Offsets(s, marker, from) == {k \in from..Len(s) : At(s, marker, k)}

First(S) == CHOOSE k \in S : \A m \in S : k <= m

\* The start marker occurs and an end marker begins after its first occurrence.
StartThenEnd(s) ==
    /\ Offsets(s, "===DATA_FILE_START===", 0) # {}
    /\ Offsets(s, "===DATA_FILE_END===",
               First(Offsets(s, "===DATA_FILE_START===", 0)) + 21) # {}

\* The text between the first start marker and the first end marker after it.
Between(s) ==
    LET from == First(Offsets(s, "===DATA_FILE_START===", 0)) + 21
    IN  SubSeq(s, from + 1, First(Offsets(s, "===DATA_FILE_END===", from)))

\* C10: for every text in which the start marker is followed later by the end
\* marker, the regex form and extractSection both return the text between the
\* first start marker and the end marker that follows it, without its leading
\* and trailing white space and otherwise unchanged.
C10_ExtractsBetween ==
    (section.by # "none" /\ StartThenEnd(Concat(source))) =>
        IsTrimOf(section.value, Between(Concat(source)))

\* C10 for the regex form alone, where it holds.
C10_RegexExtractsBetween ==
    (section.by = "regex" /\ StartThenEnd(Concat(source))) =>
        IsTrimOf(section.value, Between(Concat(source)))

\* C10 for extractSection on the texts whose first end marker is the one that
\* follows the first start marker, where it holds.
C10_IndexOfExtractsBetweenInOrder ==
    ( /\ section.by = "indexOf"
      /\ StartThenEnd(Concat(source))
      /\ First(Offsets(Concat(source), "===DATA_FILE_END===", 0))
           >= First(Offsets(Concat(source), "===DATA_FILE_START===", 0)) + 21 ) =>
        IsTrimOf(section.value, Between(Concat(source)))

\* The state in which C10 fails: an end marker before the start marker makes
\* extractSection return text from before the start marker.
C10_Witness ==
    /\ section.by = "indexOf"
    /\ source = <<"===DATA_FILE_END===", "===DATA_FILE_START===", "x", "===DATA_FILE_END===">>
    /\ section.value # "x"

(***************************************************************************)
(* Sections whose markers are missing.                                     *)
(***************************************************************************)
\* The handlers that extract three sections with the regex form.
RegexHandlers == {"cypress", "selenium"}

SectionMarkers ==
    [pageObject |-> <<"===PAGE_OBJECT_START===", "===PAGE_OBJECT_END===">>,
     testFile |-> <<"===TEST_FILE_START===", "===TEST_FILE_END===">>,
     dataFile |-> <<"===DATA_FILE_START===", "===DATA_FILE_END===">>]

Occurs(s, marker) == Offsets(s, marker, 0) # {}

\* The start marker occurs once, the end marker once, after it, with text that
\* is not blank between them.
WellFormedPair(s, pair) ==
    /\ Cardinality(Offsets(s, pair[1], 0)) = 1
    /\ Cardinality(Offsets(s, pair[2], 0)) = 1
    /\ First(Offsets(s, pair[2], 0)) >= First(Offsets(s, pair[1], 0)) + Len(pair[1])
    /\ ~Blank(SubSeq(s, First(Offsets(s, pair[1], 0)) + Len(pair[1]) + 1,
                     First(Offsets(s, pair[2], 0))))

BetweenPair(s, pair) ==
    SubSeq(s, First(Offsets(s, pair[1], 0)) + Len(pair[1]) + 1,
           First(Offsets(s, pair[2], 0)))

\* The upstream answered 2xx with a first completion that is a string with
\* something other than white space in it.
GotCompletion(r) ==
    /\ pc[r] = "responded"
    /\ upstream[r].kind = "response"
    /\ upstream[r].status \in 200..299
    /\ upstream[r].data.t # "invalid"
    /\ FirstContent(upstream[r].data).t = "string"
    /\ ~Blank(FirstContent(upstream[r].data).v)

\* C11: in the handlers with the regex extractor, a completion answers 200 and
\* every section neither of whose markers occurs in it is the empty string,
\* while every section whose pair is well formed is the text between its
\* markers, trimmed; a completion without any marker gives three empty
\* strings.
C11_MissingPairGivesEmpty ==
    \A r \in Slots :
        (GotCompletion(r) /\ req[r].handler \in RegexHandlers) =>
            /\ resp[r].status = 200
            /\ DOMAIN resp[r].body = {"pageObject", "testFile", "dataFile"}
            /\ \A f \in DOMAIN SectionMarkers :
                  LET content == FirstContent(upstream[r].data).v
                      pair == SectionMarkers[f]
                  IN  /\ (~Occurs(content, pair[1]) /\ ~Occurs(content, pair[2])) =>
                            resp[r].body[f] = ""
                      /\ WellFormedPair(content, pair) =>
                            /\ resp[r].body[f] # ""
                            /\ IsTrimOf(resp[r].body[f], BetweenPair(content, pair))

C11_Witness ==
    \E r \in Slots :
        /\ GotCompletion(r)
        /\ req[r].handler = "cypress"
        /\ WellFormedPair(FirstContent(upstream[r].data).v, SectionMarkers.pageObject)
        /\ WellFormedPair(FirstContent(upstream[r].data).v, SectionMarkers.testFile)
        /\ ~Occurs(FirstContent(upstream[r].data).v, "===DATA_FILE_START===")
        /\ ~Occurs(FirstContent(upstream[r].data).v, "===DATA_FILE_END===")
        /\ resp[r].status = 200
        /\ resp[r].body.pageObject = "class P {}"
        /\ resp[r].body.testFile = "it('t')"
        /\ resp[r].body.dataFile = ""

(***************************************************************************)
(* Markers that are unmatched or out of order.                             *)
(***************************************************************************)
\* Exactly one marker of the data file pair occurs in s.
Unmatched(s) ==
    Occurs(s, "===DATA_FILE_START===") # Occurs(s, "===DATA_FILE_END===")

\* Both markers occur in s and every end marker begins before the end of
\* every start marker: no start marker is followed by an end marker.
OutOfOrder(s) ==
    /\ Occurs(s, "===DATA_FILE_START===")
    /\ Occurs(s, "===DATA_FILE_END===")
    /\ \A i \in Offsets(s, "===DATA_FILE_START===", 0) :
          \A j \in Offsets(s, "===DATA_FILE_END===", 0) : j < i + 21

\* C12: on every text in which the markers of a section are unmatched or out
\* of order, the regex form and extractSection both return the empty string.
C12_UnmatchedOrOutOfOrderGivesEmpty ==
    ( /\ section.by # "none"
      /\ Unmatched(Concat(source)) \/ OutOfOrder(Concat(source)) ) =>
        section.value = ""

\* The state in which C12 fails: the end marker before the start marker makes
\* extractSection return the text up to the end of the start marker.
C12_Witness ==
    /\ section.by = "indexOf"
    /\ source = <<"===DATA_FILE_END===", "x", "===DATA_FILE_START===">>
    /\ OutOfOrder(Concat(source))
    /\ section.value = "===DATA_FILE_END===x===DATA_FILE_START==="

\* C12 for the regex form alone, where it holds.
C12_RegexGivesEmpty ==
    ( /\ section.by = "regex"
      /\ Unmatched(Concat(source)) \/ OutOfOrder(Concat(source)) ) =>
        section.value = ""

\* C12 for extractSection on unmatched markers alone, where it holds.
C12_IndexOfUnmatchedGivesEmpty ==
    (section.by = "indexOf" /\ Unmatched(Concat(source))) => section.value = ""

(***************************************************************************)
(* The fallback of the Robot handler.                                      *)
(***************************************************************************)
RobotMarkers ==
    { <<"===ROBOT_TEST_START===", "===ROBOT_TEST_END===">>,
      <<"===KEYWORDS_START===", "===KEYWORDS_END===">>,
      <<"===DATA_FILE_START===", "===DATA_FILE_END===">> }

\* No section has both of its markers in s.
NoMarkerPair(s) == \A pair \in RobotMarkers : ~(Occurs(s, pair[1]) /\ Occurs(s, pair[2]))

\* C13: when the completion is not blank and contains none of the three marker
\* pairs, the Robot handler answers 200 with testFile the whole completion,
\* trimmed, and pageObject and dataFile the two fixed placeholder strings.
C13_RobotFallback ==
    \A r \in Slots :
        ( /\ GotCompletion(r)
          /\ req[r].handler = "robot"
          /\ NoMarkerPair(FirstContent(upstream[r].data).v) ) =>
            /\ resp[r].status = 200
            /\ resp[r].json
            /\ DOMAIN resp[r].body = {"pageObject", "testFile", "dataFile"}
            /\ IsTrimOf(resp[r].body.testFile, FirstContent(upstream[r].data).v)
            /\ resp[r].body.pageObject
                 = "# Keywords could not be parsed separately\n# Please review the test file for all content"
            /\ resp[r].body.dataFile = "# No data file was generated"

C13_Witness ==
    \E r \in Slots :
        /\ GotCompletion(r)
        /\ req[r].handler = "robot"
        /\ NoMarkerPair(FirstContent(upstream[r].data).v)
        /\ Occurs(FirstContent(upstream[r].data).v, "===ROBOT_TEST_START===")
        /\ resp[r].status = 200
        /\ resp[r].body.testFile = "*** Test Cases ***\n===ROBOT_TEST_START===\nLogin Works"

(***************************************************************************)
(* The fences around a Gherkin completion.                                 *)
(***************************************************************************)
\* The completion without the white space around it.
Trimmed(s) == CHOOSE t \in {SubSeq(s, i, j) : i \in 1..Len(s) + 1, j \in 0..Len(s)} :
                 IsTrimOf(t, s)

BeginsWithFence(s) == Len(s) >= 3 /\ SubSeq(s, 1, 3) = Fence

FinishesWithFence(s) == Len(s) >= 3 /\ SubSeq(s, Len(s) - 2, Len(s)) = Fence

\* The number of backquotes in s.
Backquotes(s) == Cardinality({i \in 1..Len(s) : SubSeq(s, i, i) = Backquote})

\* C14: for every completion wrapped in fences, nested or repeated ones
\* included, the gherkin string of the response neither begins nor ends with
\* a fence.
C14_NoFenceLeft ==
    ( /\ section.by = "fence"
      /\ BeginsWithFence(Trimmed(Concat(source)))
      /\ FinishesWithFence(Trimmed(Concat(source))) ) =>
        /\ ~BeginsWithFence(section.value)
        /\ ~FinishesWithFence(section.value)

\* The state in which C14 fails: a fence inside a fence is left in place.
C14_Witness ==
    /\ section.by = "fence"
    /\ source = <<Fence, Fence, "Feature: x", Fence>>
    /\ BeginsWithFence(section.value)

\* C14 for a completion with one opening and one closing fence, where it holds.
C14_SingleFenceStripped ==
    ( /\ section.by = "fence"
      /\ BeginsWithFence(Trimmed(Concat(source)))
      /\ FinishesWithFence(Trimmed(Concat(source)))
      /\ Backquotes(Concat(source)) = 6 ) =>
        /\ ~BeginsWithFence(section.value)
        /\ ~FinishesWithFence(section.value)

(***************************************************************************)
(* Properties of sanitizePayload.                                          *)
(***************************************************************************)
\* C15: sanitizePayload never throws: for every body it returns an object
\* with the fields testCases, locators and testData.
C15_SanitizeTotal ==
    cleaned.run =>
        /\ ~cleaned.thrown
        /\ DOMAIN cleaned.value = {"testCases", "locators", "testData"}

\* The state in which C15 fails: the body null, whose testCases cannot be read.
C15_Witness ==
    /\ cleaned.run
    /\ given = "null"
    /\ cleaned.thrown
\* C16: sanitizePayload is idempotent: applied to the object it returned, it
\* returns the same test cases in the same order, the same locators and the
\* same testData.
C16_SanitizeIdempotent ==
    again.run =>
        /\ ~again.thrown
        /\ Len(again.value.testCases) = Len(cleaned.value.testCases)
        /\ \A i \in 1..Len(cleaned.value.testCases) :
              \A f \in {"id", "description", "steps", "expected"} :
                  again.value.testCases[i][f] = cleaned.value.testCases[i][f]
        /\ again.value.locators = cleaned.value.locators
        /\ again.value.testData = cleaned.value.testData

C16_Witness ==
    /\ again.run
    /\ given = "longDescription"
    /\ Len(cleaned.value.testCases[1].description) = 1000
    /\ Len(cleaned.value.testCases[1].id) = 100
    /\ again.value = cleaned.value
FieldLimit == [id |-> 100, description |-> 1000, steps |-> 1000, expected |-> 1000]

Least(a, b) == IF a <= b THEN a ELSE b

\* Entry i of the output comes from entry i of the input: a field that is a
\* string in the input is that string, cut at the limit of the field.
ComesFrom(out, entry) ==
    \A f \in DOMAIN FieldLimit :
        (entry.t = "object" /\ f \in DOMAIN entry.v /\ entry.v[f].t = "string") =>
            out[f] = SubSeq(entry.v[f].v, 1, Least(FieldLimit[f], Len(entry.v[f].v)))

\* C17: an object returned by sanitizePayload has at most 50 test cases, the
\* first 50 entries of the input in their order, each with an id of at most
\* 100 characters and a description, steps and expected of at most 1000; and
\* when the validator lets the body through, as it must before a validated
\* handler sanitizes it for the prompt, there is at least one test case.
C17_SanitizedWithinBounds ==
    (cleaned.run /\ ~cleaned.thrown) =>
        LET out == cleaned.value.testCases
            raw == TestCasesOf(BodyOf(given))
        IN  /\ Len(out) <= 50
            /\ raw.t = "array" =>
                  /\ Len(out) = Least(50, Len(raw.v))
                  /\ \A i \in 1..Len(out) : ComesFrom(out[i], raw.v[i])
            /\ \A i \in 1..Len(out) :
                  /\ DOMAIN out[i] = DOMAIN FieldLimit
                  /\ \A f \in DOMAIN FieldLimit : Len(out[i][f]) <= FieldLimit[f]
            /\ validateAutomationPayload(BodyOf(given)) = [thrown |-> FALSE, value |-> Null]
                  => Len(out) >= 1

C17_Witness ==
    /\ cleaned.run
    /\ ~cleaned.thrown
    /\ given = "numbered"
    /\ Len(TestCasesOf(BodyOf(given)).v) > 50
    /\ Len(cleaned.value.testCases) = 50
    /\ cleaned.value.testCases[1].id = "TC1"
    /\ cleaned.value.testCases[50].id = "TC50"

\* C17 for the handlers: the request a validated handler embeds in its prompt
\* has between 1 and 50 test cases within the limits.
C17_PromptWithinBounds ==
    \A r \in Slots :
        (req[r].handler \in ValidatedHandlers /\ prompt[r].kind # "none") =>
            /\ prompt[r].kind = "request"
            /\ Len(prompt[r].testCases) \in 1..50
            /\ \A i \in 1..Len(prompt[r].testCases) :
                  /\ ComesFrom(prompt[r].testCases[i],
                               TestCasesOf(BodyOf(req[r].body)).v[i])
                  /\ \A f \in DOMAIN FieldLimit :
                        Len(prompt[r].testCases[i][f]) <= FieldLimit[f]
\* The value of field f of an entry, undefined when the entry has none.
FieldOf(entry, f) ==
    IF entry.t = "object" /\ f \in DOMAIN entry.v THEN entry.v[f] ELSE Undefined

\* undefined, null, 0, false and "".
Falsy(x) ==
    \/ x.t \in {"undefined", "null"}
    \/ x.t = "number" /\ x.v = 0
    \/ x.t = "boolean" /\ ~x.v
    \/ x.t = "string" /\ x.v = ""

\* The text of a value: a string itself, a number in decimal, true and false
\* by name, an array as the texts of its elements (nothing for null and
\* undefined) separated by commas, any other object as "[object Object]".
RECURSIVE TextOf(_)
RECURSIVE TextsOf(_)
TextOf(x) ==
    CASE x.t = "string" -> x.v
      [] x.t = "number" -> ToString(x.v)
      [] x.t = "boolean" -> IF x.v THEN "true" ELSE "false"
      [] x.t = "array" -> TextsOf(x.v)
      [] x.t = "object" -> "[object Object]"
      [] OTHER -> ""

TextsOf(xs) ==
    IF xs = <<>> THEN ""
    ELSE IF Len(xs) = 1 THEN TextOf(xs[1])
    ELSE TextOf(xs[1]) \o "," \o TextsOf(Tail(xs))

\* C18 as stated: in the output of sanitizePayload a field is the empty string
\* whenever the input value is missing or is not a string.
C18_NonStringsBecomeEmpty ==
    (cleaned.run /\ ~cleaned.thrown /\ TestCasesOf(BodyOf(given)).t = "array") =>
        \A i \in 1..Len(cleaned.value.testCases) :
            \A f \in DOMAIN FieldLimit :
                FieldOf(TestCasesOf(BodyOf(given)).v[i], f).t # "string" =>
                    cleaned.value.testCases[i][f] = ""

\* C18, amended: a field of the output is the empty string when the input
\* value is missing or falsy (null, 0, false, ""); any other value that is
\* not a string is converted to its text (7 gives "7", true gives "true", an
\* array its elements joined by commas, an object "[object Object]") and cut
\* at the limit of the field.
C18_NonStringsConverted ==
    (cleaned.run /\ ~cleaned.thrown /\ TestCasesOf(BodyOf(given)).t = "array") =>
        \A i \in 1..Len(cleaned.value.testCases) :
            \A f \in DOMAIN FieldLimit :
                LET x == FieldOf(TestCasesOf(BodyOf(given)).v[i], f)
                    out == cleaned.value.testCases[i][f]
                IN  /\ Falsy(x) => out = ""
                    /\ ~Falsy(x) =>
                          out = SubSeq(TextOf(x), 1, Least(FieldLimit[f], Len(TextOf(x))))

C18_Witness ==
    /\ cleaned.run
    /\ ~cleaned.thrown
    /\ given = "numericFields"
    /\ FieldOf(TestCasesOf(BodyOf(given)).v[1], "id") = Num(7)
    /\ cleaned.value.testCases[1].id = "7"
    /\ cleaned.value.testCases[1].steps = "12"
    /\ cleaned.value.testCases[1].expected = "a,,2"
    /\ cleaned.value.testCases[1].description = "[object Object]"
\* C19 as stated: locators and testData pass through only when the raw value
\* is a plain key-value mapping; every other raw value, arrays included, gives
\* the empty mapping.
C19_OnlyMappingsPass ==
    (cleaned.run /\ ~cleaned.thrown) =>
        \A f \in {"locators", "testData"} :
            LET raw == FieldOf(BodyOf(given), f)
            IN  cleaned.value[f] = IF raw.t = "object" THEN raw ELSE [t |-> "object", v |-> <<>>]

\* C19, amended: locators and testData pass through unchanged when the raw
\* value is a plain key-value mapping or an array (such as the list of
\* {locator, value} the client sends); a missing value, null, a string, a
\* number or a boolean gives the empty mapping.
C19_MappingsAndArraysPass ==
    (cleaned.run /\ ~cleaned.thrown) =>
        \A f \in {"locators", "testData"} :
            LET raw == FieldOf(BodyOf(given), f)
            IN  /\ raw.t \in {"object", "array"} => cleaned.value[f] = raw
                /\ raw.t \in {"undefined", "null", "string", "number", "boolean"} =>
                      /\ cleaned.value[f].t = "object"
                      /\ DOMAIN cleaned.value[f].v = {}

C19_Witness ==
    /\ cleaned.run
    /\ ~cleaned.thrown
    /\ given = "listLocators"
    /\ FieldOf(BodyOf(given), "locators").t = "array"
    /\ cleaned.value.locators = FieldOf(BodyOf(given), "locators")
    /\ FieldOf(BodyOf(given), "testData").t = "string"
    /\ DOMAIN cleaned.value.testData.v = {}

(***************************************************************************)
(* The preflight.                                                          *)
(***************************************************************************)
\* The empty answer to an OPTIONS request, given before anything else is done.
PreflightAnswer(r) ==
    /\ resp[r].status = 200
    /\ ~resp[r].json
    /\ resp[r].body = [text |-> ""]
    /\ resp[r].headers
         = { <<"Access-Control-Allow-Origin", "*">>,
             <<"Access-Control-Allow-Headers",
               "authorization, x-client-info, apikey, content-type">> }
    /\ trace[r] = <<"respond">>
    /\ calls[r] = 0
    /\ upstream[r].kind = "none"
    /\ prompt[r].kind = "none"

\* C20: a request with method OPTIONS is answered 200 with an empty body and
\* the two CORS headers before its body is parsed: nothing is validated, no
\* credential is read and no gateway call is made, whatever the body.
C20_Preflight ==
    \A r \in Slots :
        /\ (req[r].method = "OPTIONS" /\ pc[r] = "responded") => PreflightAnswer(r)
        /\ req[r].method = "OPTIONS" => pc[r] \in {"received", "responded"}

\* The state in which C20 fails: the earlier Robot revision answers "ok".
C20_Witness ==
    \E r \in Slots :
        /\ req[r].method = "OPTIONS"
        /\ req[r].handler = "robotEarly"
        /\ pc[r] = "responded"
        /\ resp[r].status = 200
        /\ resp[r].body = [text |-> "ok"]

\* C20 for the handlers other than the earlier Robot revision, where it holds.
C20_PreflightLater ==
    \A r \in Slots :
        (req[r].method = "OPTIONS" /\ pc[r] = "responded" /\ req[r].handler # "robotEarly")
            => PreflightAnswer(r)


(***************************************************************************)
(* Termination.  The runtime runs a handler that has a request or a       *)
(* settled call, and the fetch of the gateway call settles: it resolves    *)
(* with a response or rejects with a transport failure.  Every step out of *)
(* one of these positions is a step of Preflight, Dispatch, Settle or      *)
(* Finish, and each of them is enabled by the position alone.              *)
(***************************************************************************)
Busy == {"received", "calling", "settled"}

Fairness ==
    \A from \in Busy :
        []<>(pc[1] # from) \/ []<><<pc[1] = from /\ pc'[1] # from>>_pc

SpecLive == Init /\ [][Next]_vars /\ Fairness

\* An exception was thrown while the request in slot r was handled: the body
\* is not valid JSON, the validator or the sanitizer threw, the fetch was
\* rejected, or the body of a 2xx reply is not JSON.
ThrewBeforeCall(r) ==
    \/ req[r].body = "notJson"
    \/ /\ req[r].handler \in ValidatedHandlers
       /\ \/ validateAutomationPayload(BodyOf(req[r].body)).thrown
          \/ /\ ~Truthy(validateAutomationPayload(BodyOf(req[r].body)).value)
             /\ sanitizePayload(BodyOf(req[r].body)).thrown

ThrewAfterCall(r) ==
    /\ calls[r] = 1
    /\ \/ upstream[r].kind = "rejected"
       \/ /\ upstream[r].kind = "response"
          /\ Ok(upstream[r].status)
          /\ upstream[r].data = InvalidJson

IsJsonErrorBody(body) ==
    /\ DOMAIN body = {"error"}
    /\ body.error \in STRING

\* The response to a POST once it is given.
WellFormedAnswer(r) ==
    /\ resp[r].json
    /\ <<"Content-Type", "application/json">> \in resp[r].headers
    /\ resp[r].status \in {200, 400, 402, 429, 500}
    /\ ("error" \in DOMAIN resp[r].body) <=> (resp[r].status # 200)
    /\ resp[r].status # 200 => IsJsonErrorBody(resp[r].body)
    /\ (ThrewBeforeCall(r) \/ ThrewAfterCall(r)) =>
          resp[r].status = 500 /\ IsJsonErrorBody(resp[r].body)

AnswersWellFormed ==
    \A r \in Slots :
        req[r].method = "POST" =>
            /\ pc[r] # "responded" => resp[r] = NoResp
            /\ pc[r] = "responded" => WellFormedAnswer(r)

\* A response, once given, is not replaced by another one.
AnsweredOnce ==
    \A r \in Slots : resp[r] # NoResp => resp'[r] = resp[r]

\* C21: every POST ends in exactly one response, with a JSON body and a status
\* in {200, 400, 402, 429, 500}; an exception thrown while handling it (a body
\* that is not valid JSON, a null entry in testCases, a transport failure of
\* the gateway call, a 2xx upstream body that is not JSON) is answered with
\* status 500 and {error: string}; a response has an error field exactly when
\* its status is not 200.
C21_EndsInOneJsonResponse ==
    /\ []AnswersWellFormed
    /\ [][AnsweredOnce]_vars
    /\ \A r \in {1} : (pc[r] = "received" /\ req[r].method = "POST") ~> (pc[r] = "responded")

\* A POST with a null entry in testCases, one whose gateway call was rejected
\* and one whose 2xx reply was not JSON have each been answered with 500.
C21_Witness ==
    /\ pc[1] = "responded"
    /\ req[1].method = "POST"
    /\ req[1].handler \in {"cypress", "robot"}
    /\ resp[1].status = 500
    /\ \/ req[1].body = "nullEntry"
       \/ ThrewAfterCall(1) /\ upstream[1].kind = "response"


(***************************************************************************)
(* Requests in flight at once.                                             *)
(***************************************************************************)
\* What the handler does with the request of slot r when it is the only
\* request: its own body and the credential decide whether it calls the
\* gateway, and the reply to its own call decides the rest.
DispatchedAlone(r) ==
    IF req[r].handler = "gherkin"
    THEN dispatchGherkin(req[r].handler, req[r].body, env)
    ELSE dispatchValidated(req[r].handler, req[r].body, env)

HandledAlone(r) ==
    IF DispatchedAlone(r).fetch
    THEN [resp |-> finishHardened(req[r].handler, upstream[r]).resp,
          trace |-> DispatchedAlone(r).steps
                      \o finishHardened(req[r].handler, upstream[r]).steps]
    ELSE [resp |-> DispatchedAlone(r).resp, trace |-> DispatchedAlone(r).steps]

AsIfAlone ==
    \A r \in Slots :
        req[r].method = "POST" =>
            /\ pc[r] \in {"calling", "settled"} =>
                  /\ DispatchedAlone(r).fetch
                  /\ prompt[r] = DispatchedAlone(r).prompt
                  /\ resp[r] = NoResp
            /\ pc[r] = "responded" =>
                  /\ resp[r] = HandledAlone(r).resp
                  /\ trace[r] = HandledAlone(r).trace
                  /\ calls[r] = IF DispatchedAlone(r).fetch THEN 1 ELSE 0

\* A step of one request leaves the credential and everything that belongs to
\* another request as it was.
StepsApart ==
    /\ env' = env
    /\ \A r \in Slots :
          pc'[r] # pc[r] =>
              \A o \in Slots \ {r} :
                  /\ req'[o] = req[o] /\ pc'[o] = pc[o] /\ trace'[o] = trace[o]
                  /\ calls'[o] = calls[o] /\ upstream'[o] = upstream[o]
                  /\ prompt'[o] = prompt[o] /\ resp'[o] = resp[o]

\* C22: under any interleaving of the steps of two requests in flight, the
\* response to each request is the one it would get if handled alone,
\* determined by its own body, the read-only credential and the upstream reply
\* to its own gateway call; no handler step writes state of another request.
C22_RequestsDoNotInteract ==
    /\ []AsIfAlone
    /\ [][StepsApart]_vars

\* The first request has been answered from its own 429 reply while the second,
\* whose call got a completion, is still in flight.
C22_Witness ==
    /\ pc[1] = "responded" /\ pc[2] = "settled"
    /\ req[1].method = "POST" /\ req[2].method = "POST"
    /\ upstream[1].status = 429 /\ upstream[2].status = 200
    /\ upstream[2].data # InvalidJson
    /\ resp[1].status = 429


(***************************************************************************)
(* The Gherkin handler end to end.                                         *)
(***************************************************************************)
\* A POST to the Gherkin handler, answered, with the credential present.
GherkinAnswered(r) ==
    /\ pc[r] = "responded"
    /\ req[r].handler = "gherkin"
    /\ req[r].method = "POST"
    /\ KeyName("gherkin") \in env

\* The upstream answered the call of slot r with a completion that contains s.
CompletionContains(r, s) ==
    /\ calls[r] = 1
    /\ upstream[r].kind = "response"
    /\ Ok(upstream[r].status)
    /\ FirstContent(upstream[r].data).t = "string"
    /\ Contains(FirstContent(upstream[r].data).v, s)

HasGherkinWith(response, s) ==
    /\ response.status = 200
    /\ response.json
    /\ DOMAIN response.body = {"gherkin"}
    /\ Contains(response.body.gherkin, s)

\* C23: a POST to the Gherkin handler whose body carries the test case TC001
\* with empty locators and testData (and no url or scenarioDesc), with the
\* credential present, is answered with status 200 and a body whose gherkin
\* string contains "Feature:".
C23_TestCaseBodyGivesFeature ==
    \A r \in Slots :
        (GherkinAnswered(r) /\ req[r].body = "one") =>
            HasGherkinWith(resp[r], "Feature:")

\* The Gherkin handler answers the test-case body with status 400 and "A valid
\* URL is required." without calling the gateway; a body with a url and a
\* scenarioDesc that pass its checks, when the upstream returns a completion
\* containing "Feature:", is answered with status 200 and a gherkin string
\* containing "Feature:".
C23_UrlAndDescriptionGiveFeature ==
    \A r \in Slots :
        GherkinAnswered(r) =>
            /\ req[r].body = "one" =>
                  /\ resp[r] = JsonResponse(400, [error |-> UrlRequiredMsg])
                  /\ calls[r] = 0
            /\ CompletionContains(r, "Feature:") =>
                  /\ OptGet(BodyOf(req[r].body), "url").t = "string"
                  /\ OptGet(BodyOf(req[r].body), "scenarioDesc").t = "string"
                  /\ HasGherkinWith(resp[r], "Feature:")

\* The test-case body has been answered by the Gherkin handler.
C23_Witness ==
    /\ GherkinAnswered(1)
    /\ req[1].body = "one"
    /\ resp[1].status = 400

\* A body with url and scenarioDesc has been answered with the feature text.
C23_FeatureReturned ==
    /\ GherkinAnswered(1)
    /\ req[1].body = "gherkin"
    /\ CompletionContains(1, "Feature:")
    /\ HasGherkinWith(resp[1], "Feature:")


(***************************************************************************)
(* The shape of the page-object responses.                                 *)
(***************************************************************************)
PomHandlers == {"playwright", "selenium", "cypress"}

\* A POST answered with status 200.
Succeeded(r) ==
    /\ pc[r] = "responded"
    /\ req[r].method = "POST"
    /\ resp[r].status = 200

ThreeStringFields(response) ==
    /\ response.json
    /\ DOMAIN response.body = {"pageObject", "testFile", "dataFile"}
    /\ \A f \in DOMAIN response.body : response.body[f] \in STRING

\* C24: every 200 response to a POST from the Playwright, Selenium and Cypress
\* handlers is a JSON object with exactly the three string fields pageObject,
\* testFile and dataFile, and the marker pairs the handler extracts are the
\* marker pairs its prompt tells the model to emit.
C24_ThreeStringFields ==
    \A r \in Slots :
        (Succeeded(r) /\ req[r].handler \in PomHandlers) =>
            /\ ThreeStringFields(resp[r])
            /\ extractedMarkers(req[r].handler) = promptMarkers(req[r].handler)

\* The Playwright handler has answered a completion that carries all three
\* sections with an object of two fields.
C24_Witness ==
    /\ Succeeded(1)
    /\ req[1].handler = "playwright"
    /\ FirstContent(upstream[1].data) = Str(ThreeFileText)
    /\ DOMAIN resp[1].body = {"pageObject", "testFile"}

\* The Cypress and Selenium handlers give the three fields, and every handler
\* extracts the marker pairs its prompt names.
C24_ThreeStringFieldsValidated ==
    \A r \in Slots :
        Succeeded(r) =>
            /\ req[r].handler \in {"cypress", "selenium"} => ThreeStringFields(resp[r])
            /\ extractedMarkers(req[r].handler) = promptMarkers(req[r].handler)


(***************************************************************************)
(* The order of the validator's checks.                                    *)
(***************************************************************************)
\* What the two checks on one entry come to: reading a field of a null or
\* undefined entry throws, the steps are looked at before the expected result.
EntryOutcome(tc) ==
    IF tc.t \in {"null", "undefined"} THEN Thrown("TypeError")
    ELSE IF OverlongField(tc, "steps") THEN Returned(Str(StepTooLongMsg))
    ELSE IF OverlongField(tc, "expected") THEN Returned(Str(ExpectedTooLongMsg))
    ELSE Returned(Null)

\* The entries at which the walk over the array stops.
StoppingEntries(tcs) ==
    {i \in 1..Len(tcs) : EntryOutcome(tcs[i]) # Returned(Null)}

\* The outcome of the first check, in the fixed order, that does not pass.
FirstFailure(body) ==
    IF LacksTestCases(body) THEN Returned(Str(NoTestCasesMsg))
    ELSE IF Len(TestCasesOf(body).v) > 50 THEN Returned(Str(TooManyMsg))
    ELSE IF StoppingEntries(TestCasesOf(body).v) = {} THEN Returned(Null)
    ELSE EntryOutcome(TestCasesOf(body).v[First(StoppingEntries(TestCasesOf(body).v))])

ValidatorFollowsOrder ==
    /\ checked.run => checked = Ran(FirstFailure(BodyOf(given)))
    /\ (checked.run /\ given = "tooManyLong") =>
          checked = Ran(Returned(Str("Too many test cases. Maximum is 50.")))
    /\ rechecked.run => rechecked = checked

\* A call of the validator leaves the body and all other state as they were.
ValidatorOnlyReturns ==
    (checked' # checked \/ rechecked' # rechecked) =>
        UNCHANGED <<sanitizeVars, handlerVars, extractVars>>

GherkinPost(r) ==
    /\ pc[r] \in {"calling", "settled", "responded"}
    /\ req[r].handler = "gherkin"
    /\ req[r].method = "POST"
    /\ req[r].body # "notJson"

\* The body has a string under key k of at least n characters.
AtLeast(body, k, n) ==
    /\ OptGet(body, k).t = "string"
    /\ Len(OptGet(body, k).v) >= n

RejectedUnsent(r) ==
    /\ pc[r] = "responded"
    /\ resp[r].status = 400
    /\ resp[r].json
    /\ DOMAIN resp[r].body = {"error"}
    /\ calls[r] = 0

\* C26: every request to the Gherkin handler whose url has 500 or more
\* characters, or whose scenarioDesc has 2000 or more, is rejected with status
\* 400 and causes no gateway call, so every url embedded in the prompt is
\* shorter than 500 characters and every description shorter than 2000.
C26_LimitsAsStated ==
    \A r \in Slots :
        GherkinPost(r) =>
            /\ ( \/ AtLeast(BodyOf(req[r].body), "url", 500)
                 \/ AtLeast(BodyOf(req[r].body), "scenarioDesc", 2000) ) => RejectedUnsent(r)
            /\ prompt[r] # NoPrompt =>
                  /\ Len(prompt[r].url) < 500
                  /\ Len(prompt[r].scenarioDesc) < 2000

\* A url of exactly 500 characters has been embedded in the prompt of a call.
C26_Witness ==
    /\ GherkinPost(1)
    /\ AtLeast(BodyOf(req[1].body), "url", 500)
    /\ calls[1] = 1
    /\ Len(prompt[1].url) = 500

\* What the handler enforces: more than 500 and more than 2000 characters are
\* rejected unsent, and what is embedded has at most 500 and 2000 characters.
C26_LimitsAsChecked ==
    \A r \in Slots :
        GherkinPost(r) =>
            /\ ( \/ AtLeast(BodyOf(req[r].body), "url", 501)
                 \/ AtLeast(BodyOf(req[r].body), "scenarioDesc", 2001) ) => RejectedUnsent(r)
            /\ prompt[r] # NoPrompt =>
                  /\ Len(prompt[r].url) <= 500
                  /\ Len(prompt[r].scenarioDesc) <= 2000


(***************************************************************************)
(* What the sanitizer cuts from a body the validator let through.          *)
(***************************************************************************)
\* sanitizePayload has returned for a body the validator found no fault with.
SanitizedValid ==
    /\ checked.run
    /\ ~checked.thrown
    /\ checked.value = Null
    /\ cleaned.run
    /\ ~cleaned.thrown

\* Field f of entry i of the body is a string and field f of entry i of the
\* sanitized request is its first n characters.
KeptUpTo(i, f, n) ==
    FieldOf(TestCasesOf(BodyOf(given)).v[i], f).t = "string" =>
        cleaned.value.testCases[i][f] =
            SubSeq(FieldOf(TestCasesOf(BodyOf(given)).v[i], f).v, 1,
                   Least(n, Len(FieldOf(TestCasesOf(BodyOf(given)).v[i], f).v)))

KeptWhole(i, f) ==
    FieldOf(TestCasesOf(BodyOf(given)).v[i], f).t = "string" =>
        cleaned.value.testCases[i][f] = FieldOf(TestCasesOf(BodyOf(given)).v[i], f).v

\* C27: for every body that passes validateAutomationPayload, sanitizePayload
\* loses no text: the id, description, steps and expected of each test case in
\* the sanitized request equal the string values sent in the body.
C27_NoTextLost ==
    SanitizedValid =>
        /\ Len(cleaned.value.testCases) = Len(TestCasesOf(BodyOf(given)).v)
        /\ \A i \in 1..Len(cleaned.value.testCases) :
              \A f \in {"id", "description", "steps", "expected"} : KeptWhole(i, f)

\* For a body that passes validateAutomationPayload every test case is kept,
\* and steps and expected that are strings are kept whole; an id that is a
\* string is cut to its first 100 characters and a description to its first
\* 1000.
C27_StepsAndExpectedKept ==
    SanitizedValid =>
        /\ Len(cleaned.value.testCases) = Len(TestCasesOf(BodyOf(given)).v)
        /\ \A i \in 1..Len(cleaned.value.testCases) :
              /\ KeptWhole(i, "steps")
              /\ KeptWhole(i, "expected")
              /\ KeptUpTo(i, "id", 100)
              /\ KeptUpTo(i, "description", 1000)

\* A body with an id of more than 100 and a description of more than 1000
\* characters has passed the validator and come out of the sanitizer shorter.
C27_Witness ==
    /\ SanitizedValid
    /\ given = "longDescription"
    /\ Len(FieldOf(TestCasesOf(BodyOf(given)).v[1], "description").v) > 1000
    /\ Len(cleaned.value.testCases[1].description) = 1000
    /\ Len(cleaned.value.testCases[1].id) = 100
    /\ cleaned.value.testCases[1].steps = "go"


(***************************************************************************)
(* From the uploaded CSV to the prompt.                                    *)
(***************************************************************************)
\* A validated handler has embedded the uploaded test cases in its prompt.
UploadEmbedded(r) ==
    /\ req[r].handler \in ValidatedHandlers
    /\ req[r].method = "POST"
    /\ req[r].body = "csvUpload"
    /\ prompt[r] # NoPrompt

\* C28: the step text of every test case parsed from an uploaded CSV reaches
\* the prompt: the steps field of each sanitized test case embedded in the
\* prompt equals the step text of the corresponding CSV row.
C28_StepTextReachesPrompt ==
    \A r \in Slots :
        UploadEmbedded(r) =>
            /\ Len(prompt[r].testCases) = Len(CsvRows)
            /\ \A i \in 1..Len(CsvRows) : prompt[r].testCases[i].steps = CsvRows[i].step

\* The first row of the upload is in the prompt with its id and without its
\* step text.
C28_Witness ==
    /\ UploadEmbedded(1)
    /\ calls[1] = 1
    /\ CsvRows[1].step = "click login"
    /\ prompt[1].testCases[1].id = CsvRows[1].id
    /\ prompt[1].testCases[1].steps = ""

\* The id, the description and the expected result of every row reach the
\* prompt; the steps of every embedded test case are empty.
C28_StepTextDropped ==
    \A r \in Slots :
        UploadEmbedded(r) =>
            /\ Len(prompt[r].testCases) = Len(CsvRows)
            /\ \A i \in 1..Len(CsvRows) :
                  /\ prompt[r].testCases[i].id = CsvRows[i].id
                  /\ prompt[r].testCases[i].description = CsvRows[i].description
                  /\ prompt[r].testCases[i].expected = CsvRows[i].expected
                  /\ prompt[r].testCases[i].steps = ""


(***************************************************************************)
(* When the Robot handler falls back to the whole completion.              *)
(***************************************************************************)
\* Both markers of the pair occur in s, the end marker after the start marker.
PairPresent(s, pair) ==
    /\ Occurs(s, pair[1])
    /\ Occurs(s, pair[2])
    /\ First(Offsets(s, pair[2], 0)) >= First(Offsets(s, pair[1], 0)) + Len(pair[1])

AnyMarkerIn(s) ==
    \E pair \in RobotMarkers : Occurs(s, pair[1]) \/ Occurs(s, pair[2])

\* The Robot handler has answered a completion with status 200.
RobotAnswered(r) ==
    /\ GotCompletion(r)
    /\ req[r].handler = "robot"
    /\ resp[r].status = 200

\* The response is the one of the fallback path.
FellBack(r) ==
    /\ resp[r].body.pageObject = KeywordsFallback
    /\ resp[r].body.dataFile = DataFileFallback
    /\ IsTrimOf(resp[r].body.testFile, FirstContent(upstream[r].data).v)

\* C29: the Robot handler takes the fallback path (the whole raw completion as
\* testFile) only when none of the expected markers occurs in the completion:
\* whenever at least one complete marker pair is present, a pair with blank
\* content included, the response is built from the extracted sections and
\* testFile contains no marker string.
C29_FallbackOnlyWithoutMarkers ==
    \A r \in Slots :
        RobotAnswered(r) =>
            /\ FellBack(r) => ~AnyMarkerIn(FirstContent(upstream[r].data).v)
            /\ (\E pair \in RobotMarkers : PairPresent(FirstContent(upstream[r].data).v, pair)) =>
                  /\ ~FellBack(r)
                  /\ ~AnyMarkerIn(resp[r].body.testFile)

\* A completion with three complete pairs of blank content has been answered
\* by the fallback path, markers and all.
C29_Witness ==
    /\ RobotAnswered(1)
    /\ FirstContent(upstream[1].data) = Str(BlankPairText)
    /\ \A pair \in RobotMarkers : PairPresent(BlankPairText, pair)
    /\ FellBack(1)
    /\ AnyMarkerIn(resp[1].body.testFile)

\* The handler falls back exactly when its three extractions are all empty;
\* a pair with text between its markers keeps it from falling back.
C29_FallbackWhenSectionsEmpty ==
    \A r \in Slots :
        RobotAnswered(r) =>
            /\ FellBack(r) <=>
                  \A pair \in RobotMarkers :
                      extractSection(Trim(FirstContent(upstream[r].data).v), pair[1], pair[2]) = ""
            /\ (\E pair \in RobotMarkers : WellFormedPair(FirstContent(upstream[r].data).v, pair)) =>
                  ~FellBack(r)


(***************************************************************************)
(* The gherkin string of a 200 response.                                   *)
(***************************************************************************)
\* The Gherkin handler has answered a completion that is not blank.
GherkinCompleted(r) ==
    /\ GotCompletion(r)
    /\ req[r].handler = "gherkin"
    /\ req[r].method = "POST"

\* Nothing is left of the completion once it is trimmed and its fences are
\* stripped.
OnlyFences(r) ==
    stripFences(Trim(FirstContent(upstream[r].data).v)) = ""

\* C30: every 200 response from the Gherkin handler carries a non-empty gherkin
\* string: a completion that is non-empty after trimming but empty once the
\* code fences are stripped is answered with the 500 empty-response error, not
\* with {gherkin: ""}.
C30_GherkinNeverEmpty ==
    \A r \in Slots :
        /\ ( /\ pc[r] = "responded"
             /\ req[r].handler = "gherkin"
             /\ req[r].method = "POST"
             /\ resp[r].status = 200 ) => resp[r].body.gherkin # ""
        /\ (GherkinCompleted(r) /\ OnlyFences(r)) =>
              resp[r] = JsonResponse(500, [error |-> GenericGherkinMsg])

\* A completion of two fences has been answered with 200 and an empty gherkin
\* string.
C30_Witness ==
    /\ GherkinCompleted(1)
    /\ FirstContent(upstream[1].data) = Str(FenceOnlyText)
    /\ OnlyFences(1)
    /\ resp[1] = JsonResponse(200, [gherkin |-> ""])

\* A 200 response of the Gherkin handler has an empty gherkin string only for
\* a completion of which nothing is left once its fences are stripped; a
\* completion that is blank is answered with the 500 error.
C30_EmptyOnlyFromFences ==
    \A r \in Slots :
        ( /\ pc[r] = "responded"
          /\ req[r].handler = "gherkin"
          /\ req[r].method = "POST"
          /\ calls[r] = 1
          /\ upstream[r].kind = "response"
          /\ Ok(upstream[r].status)
          /\ upstream[r].data # InvalidJson ) =>
            /\ BlankContent(FirstContent(upstream[r].data)) =>
                  resp[r] = JsonResponse(500, [error |-> GenericGherkinMsg])
            /\ (resp[r].status = 200 /\ resp[r].body.gherkin = "") => OnlyFences(r)

====
